---- MODULE Spec2Model ----
(***************************************************************************)
(* A model of the Foster B-tree of caetanosauer/foster-btree: the slotted  *)
(* page (slot_array.h), the node operations (node_refactored.h, search.h,  *)
(* move_records.h), the foster extension (node_foster.h), the latch        *)
(* (latch_mutex.h) and the tree operations put / get / remove (btree.h).   *)
(*                                                                         *)
(* Build modelled: DEBUG_LEVEL = 0 (assertions.h: an assert<1> without a   *)
(* message does not compile at a higher level), so assert<1> and assert<3> *)
(* are no-ops and only assert<0> can throw.  Keys and values are strings,  *)
(* the PMNK is a uint16_t, MutexLatch is the latch.                        *)
(***************************************************************************)
EXTENDS Integers, Sequences, FiniteSets, TLC

VARIABLES
    nodes,      \* node id -> page (slot vector, payload heap, foster fields, level, latch counter)
    nnodes,     \* number of pages handed out by the node manager
    last,       \* the last completed tree operation and its result
    stored,     \* ghost: key -> the value the callers have put and not removed since (user errors apart)
    th,         \* thread id -> control state of the thread's current operation
    held,       \* ghost: thread id -> node id -> the latch mode the thread was granted ("r", "w" or "")
    mutex       \* node id -> the thread that has locked the latch's std::mutex, or 0

vars == <<nodes, nnodes, last, stored, th, held, mutex>>

-----------------------------------------------------------------------------
(* Bounds of the model *)

\* number of payload blocks of a page (SlotArray::PayloadCount for a small TotalSize)
PayloadCount == 6
\* number of payload blocks of a page of the trees that grow (a larger TotalSize)
BranchPayloadCount == 7
\* pages the node manager can hand out, the root included
MaxNodes == 6
\* how many of AllKeys the operations draw their keys from
NumKeys == 4
\* how many distinct values each key is put with
NumValues == 1
\* how many further values, of growing length, a key is overwritten with
NumUpsertValues == 2
\* the levels the tree grows by
MaxLevel == 2
\* how far a latch counter may drift from zero, in read acquisitions
MaxDrift == 2
\* threads of the concurrent specifications
NumThreads == 2
\* calls of put, get and remove each thread makes in the concurrent specification
MaxOps == 2
\* calls each thread makes on the latch in the specification of the latch
MaxCalls == 3

(* Program constants *)

\* SlotArray's Alignment template argument: the size of a payload block in bytes
Alignment == 8
\* sizeof(SlotArray::Slot) for a uint16_t key and a 2-byte payload pointer bit-field
SlotSize == 4
\* sizeof(LengthType) of the encoders (uint16_t)
LengthBytes == 2
\* size_t arithmetic wraps: a negative difference reads as a huge number
SizeWrap == 1000000
\* MutexLatch masks
WRITER_MASK == 1
READER_MASK == 2
\* FosterNodePayloads field numbers
LowKey == 0
HighKey == 1
FosterKey == 2
FosterPtr == 3
Prefix == 4
FieldCount == 5

-----------------------------------------------------------------------------
(* Keys, values and their encoding *)

\* The keys the model draws from: strings as byte sequences.  The first three share
\* the PMNK (1,1), the fourth is shorter than a PMNK, the fifth shares the PMNK (1,1)
\* and is a prefix of the first three, the sixth is the empty string.
AllKeys == << <<1,1,2>>, <<1,1,3>>, <<1,1,1>>, <<2>>, <<1,1>>, << >>, <<1,2,1>> >>

Keys == { AllKeys[i] : i \in 1..NumKeys }

\* position of a key in AllKeys
KeyIndex(key) == CHOOSE i \in 1..Len(AllKeys) : AllKeys[i] = key

\* The values a key is put with: one-byte strings, different for different keys
ValuesOf(key) == { <<10 * j + KeyIndex(key)>> : j \in 1..NumValues }

\* The values a key is overwritten with: strings of 1, 2, ... bytes, none of them a
\* value of ValuesOf
UpsertValuesOf(key) ==
    { <<50 + KeyIndex(key)>> \o [i \in 1..j |-> 7] : j \in 0..(NumUpsertValues - 1) }

NoValue == << >>

Min(a, b) == IF a < b THEN a ELSE b
Max(a, b) == IF a < b THEN b ELSE a

\* std::string operator< : lexicographic comparison of the bytes
RECURSIVE KeyLess(_, _)
KeyLess(a, b) ==
    IF Len(b) = 0 THEN FALSE
    ELSE IF Len(a) = 0 THEN TRUE
    ELSE IF a[1] < b[1] THEN TRUE
    ELSE IF a[1] > b[1] THEN FALSE
    ELSE KeyLess(Tail(a), Tail(b))

KeyLeq(a, b) == a = b \/ KeyLess(a, b)

\* PoormanPrefixing<string, uint16_t>: the first sizeof(PMNK_Type) bytes of the key,
\* zero-padded, read as a big-endian number
get_pmnk(key) ==
    LET b1 == IF Len(key) >= 1 THEN key[1] ELSE 0
        b2 == IF Len(key) >= 2 THEN key[2] ELSE 0
    IN  b1 * 256 + b2

\* DefaultEncoder<string, string>::get_payload_length(key, value)
get_payload_length(key, value) == 2 * LengthBytes + Len(key) + Len(value)

\* DefaultEncoder<string, string>::encode : length of key, key, length of value, value
encode(key, value) == <<Len(key)>> \o key \o <<Len(value)>> \o value

\* the i-th byte of a payload; the bytes behind the last byte written read as zero
byte_at(bytes, i) == IF i <= Len(bytes) THEN bytes[i] ELSE 0

\* DefaultEncoder<string, string>::decode : the key and the value of an encoded payload
decode(bytes) ==
    LET klen == byte_at(bytes, 1)
        vlen == byte_at(bytes, 2 + klen)
    IN  [key |-> [i \in 1..klen |-> byte_at(bytes, 1 + i)],
         value |-> [i \in 1..vlen |-> byte_at(bytes, 2 + klen + i)]]

\* DefaultEncoder<string, string>::get_payload_length(payload): length of an encoded payload
encoded_length(bytes) ==
    LET klen == byte_at(bytes, 1)
        vlen == byte_at(bytes, 2 + klen)
    IN  klen + vlen + 2 * LengthBytes

-----------------------------------------------------------------------------
(* The slotted page: slot_array.h *)

Fields == 0..(FieldCount - 1)

\* SlotArray() and FosterNodePayloads(): an empty page, no foster field valid, level 0,
\* latch counter 0.  Payload blocks are numbered 0..payload_count-1.
EmptyPageOf(payload_count) ==
    [ slots |-> << >>,
      payload_begin |-> payload_count,
      payloads |-> [i \in 0..(payload_count - 1) |-> << >>],
      foster_payloads |-> [f \in Fields |-> 0],
      foster_payload_valid |-> [f \in Fields |-> FALSE],
      level |-> 0,
      counter |-> 0 ]

EmptyPage == EmptyPageOf(PayloadCount)

slot_count(p) == Len(p.slots)

get_slot(p, s) == p.slots[s + 1]

get_payload(p, ptr) == IF ptr \in DOMAIN p.payloads THEN p.payloads[ptr] ELSE << >>

get_payload_for_slot(p, s) == get_payload(p, get_slot(p, s).ptr)

\* SlotArray::get_payload_end : the PayloadCount of the page
get_payload_end(p) == Cardinality(DOMAIN p.payloads)

\* SlotArray::free_space : size_t arithmetic
free_space(p) ==
    LET d == p.payload_begin * Alignment - slot_count(p) * SlotSize
    IN  IF d >= 0 THEN d ELSE SizeWrap + d

\* SlotArray::get_payload_count
get_payload_count(length) ==
    (length \div Alignment) + (IF length % Alignment # 0 THEN 1 ELSE 0)

\* a foster field of the page points at block i
is_foster_payload(p, i) ==
    \E f \in Fields : p.foster_payload_valid[f] /\ p.foster_payloads[f] = i

\* SlotArray::shift_payloads : memmove of count blocks, then the slot pointers in the
\* affected range and payload_begin are adjusted.  Blocks left below the new
\* payload_begin are free space and keep their bytes; no slot points there, and the
\* bytes of a free block that no foster field points at either are modelled as empty.
shift_payloads(p, to, from, count) ==
    LET first_affected == Min(from, to)
        last_affected == Max(from, to) + count - 1
        shift == to - from
        begin == IF first_affected <= p.payload_begin
                 THEN p.payload_begin + shift ELSE p.payload_begin
    IN  IF shift < 0 /\ free_space(p) < Alignment * (-shift)
        THEN [ok |-> FALSE, page |-> p]
        ELSE [ok |-> TRUE,
              page |-> [p EXCEPT
                !.payloads = [i \in DOMAIN p.payloads |->
                    IF i < begin /\ ~is_foster_payload(p, i) THEN << >>
                    ELSE IF i >= to /\ i < to + count
                    THEN get_payload(p, i - shift) ELSE p.payloads[i]],
                !.slots = [i \in 1..Len(p.slots) |->
                    IF count > 0 /\ p.slots[i].ptr >= first_affected
                                 /\ p.slots[i].ptr <= last_affected
                    THEN [p.slots[i] EXCEPT !.ptr = @ + shift] ELSE p.slots[i]],
                !.payload_begin = begin]]

\* SlotArray::allocate_payload.  Every caller writes the payload over the allocated
\* blocks at once: the first block holds its bytes, the blocks after it are empty.
allocate_payload(p, length) ==
    LET n == get_payload_count(length)
    IN  IF free_space(p) < n * Alignment
        THEN [ok |-> FALSE, page |-> p, ptr |-> 0]
        ELSE [ok |-> TRUE,
              page |-> [p EXCEPT !.payload_begin = @ - n,
                                 !.payloads = [i \in DOMAIN @ |->
                                     IF i >= p.payload_begin - n /\ i < p.payload_begin
                                     THEN << >> ELSE @[i]]],
              ptr |-> p.payload_begin - n]

\* SlotArray::allocate_end_payload
allocate_end_payload(p, length) ==
    LET p_count == get_payload_count(length)
        last_p == get_payload_end(p)
        first_p == p.payload_begin
    IN  IF free_space(p) < p_count * Alignment
        THEN [ok |-> FALSE, page |-> p, ptr |-> 0]
        ELSE [ok |-> TRUE,
              page |-> shift_payloads(p, first_p - p_count, first_p, last_p - first_p).page,
              ptr |-> last_p - p_count]

\* free_payload that leaves the blocks allocated
free_payload_without_shift(p, ptr, length) == p

\* SlotArray::free_payload
free_payload(p, ptr, length) ==
    LET shift == get_payload_count(length)
        count == ptr - p.payload_begin
    IN  shift_payloads(p, p.payload_begin + shift, p.payload_begin, count).page

\* insert_slot without the check that a slot fits into the free space
insert_slot_without_space_check(p, s, content) ==
    [ok |-> TRUE,
     page |-> [p EXCEPT !.slots =
         SubSeq(@, 1, s) \o <<content>> \o SubSeq(@, s + 1, Len(@))]]

\* SlotArray::insert_slot : the new slot's content is set by the caller
insert_slot(p, s, content) ==
    IF free_space(p) < SlotSize
    THEN [ok |-> FALSE, page |-> p]
    ELSE [ok |-> TRUE,
          page |-> [p EXCEPT !.slots =
              SubSeq(@, 1, s) \o <<content>> \o SubSeq(@, s + 1, Len(@))]]

\* SlotArray::delete_slot
delete_slot(p, s) ==
    [p EXCEPT !.slots = SubSeq(@, 1, s) \o SubSeq(@, s + 2, Len(@))]

\* writing bytes at a payload pointer (memcpy / encode into get_payload(ptr))
write_payload(p, ptr, bytes) ==
    IF ptr \in DOMAIN p.payloads THEN [p EXCEPT !.payloads[ptr] = bytes] ELSE p

-----------------------------------------------------------------------------
(* Search: search.h *)

\* BinarySearch::operator() over the PMNKs of the slot vector.  ret keeps the value
\* the caller passed in until the loop assigns it.
RECURSIVE BinarySearch(_, _, _, _, _)
BinarySearch(p, key, ret, begin, end) ==
    IF begin > end THEN [found |-> FALSE, ret |-> ret]
    ELSE LET mid == begin + ((end - begin) \div 2) IN
         IF mid = slot_count(p) THEN [found |-> FALSE, ret |-> mid]
         ELSE LET mid_key == get_slot(p, mid).key IN
              IF key = mid_key THEN [found |-> TRUE, ret |-> mid]
              ELSE IF key < mid_key
                   THEN IF mid = 0 THEN [found |-> FALSE, ret |-> 0]
                        ELSE BinarySearch(p, key, ret, begin, mid - 1)
                   ELSE IF begin = end THEN [found |-> FALSE, ret |-> mid + 1]
                        ELSE BinarySearch(p, key, mid + 1, mid + 1, end)

-----------------------------------------------------------------------------
(* Node operations: node_refactored.h *)

\* Node::read_slot : the key and value of slot s
read_slot(p, s) ==
    IF s < slot_count(p) THEN decode(get_payload_for_slot(p, s))
    ELSE [key |-> << >>, value |-> << >>]

\* One turn of the loop of Node::find_slot that follows a PMNK hit, on the decoded
\* record rec of the slot: stop on a match or on a greater key, otherwise move to the
\* next slot while its PMNK is the searched one.
RECURSIVE find_slot_walk(_, _, _, _)
find_slot_walk(p, key, slot, rec) ==
    IF rec.key = key THEN [found |-> TRUE, slot |-> slot, value |-> rec.value]
    ELSE IF KeyLess(key, rec.key) THEN [found |-> FALSE, slot |-> slot, value |-> rec.value]
    ELSE IF slot + 1 >= slot_count(p)
         THEN [found |-> FALSE, slot |-> slot + 1, value |-> rec.value]
    ELSE IF get_slot(p, slot + 1).key = get_pmnk(key)
         THEN find_slot_walk(p, key, slot + 1, read_slot(p, slot + 1))
         ELSE [found |-> FALSE, slot |-> slot + 1, value |-> rec.value]

\* Node::find_slot after the binary search s
find_slot_pmnk(p, key, s) ==
    IF s.found THEN find_slot_walk(p, key, s.ret, read_slot(p, s.ret))
    ELSE [found |-> FALSE, slot |-> s.ret, value |-> NoValue]

\* The end of Node::find_slot on the outcome w of the search: when the key is not
\* found, a value pointer was passed and slot > 0, slot is decremented and the value
\* of that slot is decoded
find_slot_end(p, want_value, w) ==
    IF w.found \/ ~want_value \/ w.slot = 0 THEN w
    ELSE [found |-> FALSE, slot |-> w.slot - 1, value |-> read_slot(p, w.slot - 1).value]

\* Node::find_slot (Sorted = true); want_value: the caller passed a value pointer
find_slot(p, key, want_value) ==
    find_slot_end(p, want_value,
        find_slot_pmnk(p, key, BinarySearch(p, get_pmnk(key), 0, 0, slot_count(p))))

\* Node::find(node, key, value)
find(p, key) == find_slot(p, key, TRUE)

\* Node::insert_key after a successful allocate_payload and the insert_slot s, then
\* the encoding of Node::insert
insert_fill(key, value, a, s) ==
    IF ~s.ok
    THEN [res |-> "full", page |-> free_payload(a.page, a.ptr, get_payload_length(key, value))]
    ELSE [res |-> "inserted", page |-> write_payload(s.page, a.ptr, encode(key, value))]

\* Node::insert_key after find_slot said slot and allocate_payload said a
insert_alloc(p, key, value, slot, a) ==
    IF ~a.ok THEN [res |-> "full", page |-> p]
    ELSE insert_fill(key, value, a,
             insert_slot(a.page, slot, [key |-> get_pmnk(key), ptr |-> a.ptr, ghost |-> FALSE]))

\* Node::insert_key after find_slot said f
insert_found(p, key, value, f) ==
    IF f.found THEN [res |-> "ExistentKey", page |-> p]
    ELSE insert_alloc(p, key, value, f.slot,
             allocate_payload(p, get_payload_length(key, value)))

\* Node::insert (with Node::insert_key).
\* res: "inserted", "full" (no space) or "ExistentKey" (ExistentKeyException thrown)
insert(p, key, value) == insert_found(p, key, value, find_slot(p, key, FALSE))

\* Node::remove after find_slot said f
remove_found(p, must_exist, f) ==
    IF ~f.found
    THEN [res |-> IF must_exist THEN "KeyNotFound" ELSE "absent", page |-> p]
    ELSE [res |-> "removed",
          page |-> delete_slot(
                       free_payload(p, get_slot(p, f.slot).ptr,
                                    encoded_length(get_payload_for_slot(p, f.slot))),
                       f.slot)]

\* Node::remove
\* res: "removed", "absent" (must_exist = false) or "KeyNotFound" (KeyNotFoundException)
remove(p, key, must_exist) == remove_found(p, must_exist, find_slot(p, key, FALSE))

\* The records of a page in slot order (Node::iterate)
iterate(p) == [i \in 1..slot_count(p) |-> read_slot(p, i - 1)]

\* Node::is_sorted : PMNKs and full keys of consecutive slots never decrease
is_sorted(p) ==
    \A i \in 1..(slot_count(p) - 1) :
        /\ ~(get_slot(p, i).key < get_slot(p, i - 1).key)
        /\ ~KeyLess(read_slot(p, i).key, read_slot(p, i - 1).key)

-----------------------------------------------------------------------------
(* Moving records between pages: move_records.h *)

\* One turn of the first loop of RecordMover::move_records after insert_slot said s
\* and allocate_payload said a: fill slot j of dest with slot i of src
copy_record(src, i, j, a) ==
    write_payload(
        [a.page EXCEPT !.slots[j + 1] =
            [key |-> get_slot(src, i).key, ptr |-> a.ptr, ghost |-> get_slot(src, i).ghost]],
        a.ptr, get_payload_for_slot(src, i))

\* First loop of RecordMover::move_records: copy slots i..last_slot of src to the
\* slots j.. of dest; stops at the first failed slot insertion or payload allocation.
\* s is the outcome of insert_slot(j) on dest, a of the allocate_payload after it.
RECURSIVE copy_records(_, _, _, _, _)
RECURSIVE copy_records_slot(_, _, _, _, _, _)
RECURSIVE copy_records_alloc(_, _, _, _, _, _)
copy_records(dest, src, i, j, last_slot) ==
    IF i > last_slot THEN [ok |-> TRUE, dest |-> dest, j |-> j]
    ELSE copy_records_slot(dest, src, i, j, last_slot, insert_slot(dest, j, get_slot(src, i)))

copy_records_slot(dest, src, i, j, last_slot, s) ==
    IF ~s.ok THEN [ok |-> FALSE, dest |-> dest, j |-> j]
    ELSE copy_records_alloc(dest, src, i, j, last_slot,
             allocate_payload(s.page, encoded_length(get_payload_for_slot(src, i))))

copy_records_alloc(dest, src, i, j, last_slot, a) ==
    IF ~a.ok THEN [ok |-> FALSE, dest |-> dest, j |-> j]
    ELSE copy_records(copy_record(src, i, j, a), src, i + 1, j + 1, last_slot)

\* The loops of RecordMover::move_records that free payload and slot of the slots
\* first..(i-1) of a page, from the last one down
RECURSIVE delete_records(_, _, _)
delete_records(p, i, first) ==
    IF i <= first THEN p
    ELSE delete_records(
             delete_slot(
                 free_payload(p, get_slot(p, i - 1).ptr,
                              encoded_length(get_payload_for_slot(p, i - 1))),
                 i - 1),
             i - 1, first)

\* move_records without the loop that rolls a failed copy back
move_records_without_rollback(dest_slot, src, src_slot, count, c) ==
    IF ~c.ok THEN [ok |-> FALSE, dest |-> c.dest, src |-> src]
    ELSE [ok |-> TRUE, dest |-> c.dest,
          src |-> delete_records(src, src_slot + count, src_slot)]

\* RecordMover::move_records after the copy loop said c
move_records_end(dest_slot, src, src_slot, count, c) ==
    IF ~c.ok
    THEN [ok |-> FALSE, dest |-> delete_records(c.dest, c.j, dest_slot), src |-> src]
    ELSE [ok |-> TRUE, dest |-> c.dest,
          src |-> delete_records(src, src_slot + count, src_slot)]

\* RecordMover::move_records(dest, dest_slot, src, src_slot, slot_count, move = true)
move_records(dest, dest_slot, src, src_slot, count) ==
    move_records_end(dest_slot, src, src_slot, count,
        copy_records(dest, src, src_slot, dest_slot, src_slot + count - 1))

-----------------------------------------------------------------------------
(* Foster fields: node_foster.h *)

\* sizeof of a node pointer, the value of the FosterPtr field
PointerBytes == 8

\* The null node pointer; node ids start at 1
NullNode == 0

\* Encoder<T>::get_payload_length(value) of a field value: a key is stored with its
\* length, a node pointer as the pointer
field_length(field, value) ==
    IF field = FosterPtr THEN PointerBytes ELSE LengthBytes + Len(value)

\* Encoder<T>::encode of a field value
encode_field(field, value) ==
    IF field = FosterPtr THEN <<value>> ELSE <<Len(value)>> \o value

\* Encoder<T>::decode of a field's payload
decode_field(field, bytes) ==
    IF field = FosterPtr
    THEN (IF Len(bytes) = 0 THEN NullNode ELSE bytes[1])
    ELSE [i \in 1..byte_at(bytes, 1) |-> byte_at(bytes, 1 + i)]

is_valid_foster_field(p, field) == p.foster_payload_valid[field]

\* FosterNode::get_foster_field : the value; a default-constructed one if not valid
foster_field_value(p, field) ==
    IF ~is_valid_foster_field(p, field)
    THEN (IF field = FosterPtr THEN NullNode ELSE << >>)
    ELSE decode_field(field, get_payload(p, p.foster_payloads[field]))

\* FosterNode::get_foster_field
get_foster_field(p, field) ==
    [ok |-> is_valid_foster_field(p, field), value |-> foster_field_value(p, field)]

\* FosterNodePayloads::shift_foster_payloads
shift_foster_payloads(p, field, shift) ==
    [p EXCEPT !.foster_payloads = [f \in Fields |->
        IF p.foster_payload_valid[f] /\ p.foster_payloads[f] <= p.foster_payloads[field]
        THEN p.foster_payloads[f] + shift ELSE p.foster_payloads[f]]]

\* FosterNodePayloads::shift_all_foster_payloads
shift_all_foster_payloads(p, shift) ==
    [p EXCEPT !.foster_payloads = [f \in Fields |->
        IF p.foster_payload_valid[f] THEN p.foster_payloads[f] + shift
        ELSE p.foster_payloads[f]]]

\* FosterNodePayloads::set_foster_field
mark_foster_field(p, field, payload) ==
    [p EXCEPT !.foster_payloads[field] = payload, !.foster_payload_valid[field] = TRUE]

\* The end of FosterNode::set_foster_field: encode the value at the field's payload
encode_foster_field(p, field, new_value) ==
    [ok |-> TRUE,
     page |-> write_payload(p, p.foster_payloads[field], encode_field(field, new_value))]

\* FosterNode::set_foster_field for a field not valid so far, after
\* allocate_end_payload said a
set_foster_field_new(p, field, new_value, p_diff, a) ==
    IF ~a.ok THEN [ok |-> FALSE, page |-> p]
    ELSE encode_foster_field(
             mark_foster_field(shift_all_foster_payloads(a.page, p_diff), field, a.ptr),
             field, new_value)

\* FosterNode::set_foster_field for a valid field that changes its size, after
\* shift_payloads said s
set_foster_field_resize(p, field, new_value, p_diff, s) ==
    IF ~s.ok THEN [ok |-> FALSE, page |-> p]
    ELSE encode_foster_field(shift_foster_payloads(s.page, field, p_diff), field, new_value)

\* FosterNode::set_foster_field once p_diff, the difference in payload blocks
\* between the old and the new value, is known
set_foster_field_diff(p, field, new_value, p_diff) ==
    IF ~is_valid_foster_field(p, field)
    THEN set_foster_field_new(p, field, new_value, p_diff,
             allocate_end_payload(p, field_length(field, new_value)))
    ELSE IF p_diff # 0
    THEN set_foster_field_resize(p, field, new_value, p_diff,
             shift_payloads(p, p.payload_begin + p_diff, p.payload_begin,
                            p.foster_payloads[field] - p.payload_begin))
    ELSE encode_foster_field(p, field, new_value)

\* FosterNode::set_foster_field
set_foster_field(p, field, new_value) ==
    set_foster_field_diff(p, field, new_value,
        get_payload_count(IF is_valid_foster_field(p, field)
                          THEN field_length(field, foster_field_value(p, field)) ELSE 0)
        - get_payload_count(field_length(field, new_value)))

\* FosterNode::initialize : reserve the foster child pointer, set the level
initialize(p, level) ==
    [set_foster_field(p, FosterPtr, NullNode).page EXCEPT !.level = level]

\* FosterNode::get_foster_child : false if the pointer is absent or null
get_foster_child(p) ==
    [ok |-> is_valid_foster_field(p, FosterPtr) /\ foster_field_value(p, FosterPtr) # NullNode,
     value |-> foster_field_value(p, FosterPtr)]

get_low_key(p) == get_foster_field(p, LowKey)
get_high_key(p) == get_foster_field(p, HighKey)
get_foster_key(p) == get_foster_field(p, FosterKey)

\* FosterNode::fence_contains on the fence keys read
fence_contains_keys(low_finite, low, high_finite, high, key) ==
    \/ low_finite /\ high_finite /\ KeyLeq(low, key) /\ KeyLeq(key, high)
    \/ KeyLeq(low, key) /\ ~high_finite
    \/ KeyLeq(key, high) /\ ~low_finite
    \/ ~low_finite /\ ~high_finite

\* FosterNode::fence_contains
fence_contains(p, key) ==
    fence_contains_keys(is_valid_foster_field(p, LowKey), foster_field_value(p, LowKey),
                        is_valid_foster_field(p, HighKey), foster_field_value(p, HighKey), key)

\* FosterNode::key_range_contains
key_range_contains(p, key) ==
    IF ~fence_contains(p, key) THEN FALSE
    ELSE IF get_foster_child(p).ok
         THEN ~is_valid_foster_field(p, FosterKey)
              \/ KeyLess(key, foster_field_value(p, FosterKey))
         ELSE TRUE

\* set_foster_field where a failure is only asserted at a debug level that is off:
\* the page stays as it is
try_set_foster_field(p, field, new_value) == set_foster_field(p, field, new_value).page

\* copy a field of page src to page p if src has it (get_..., then set_... on p)
copy_foster_field(p, field, src, src_field) ==
    IF is_valid_foster_field(src, src_field)
    THEN try_set_foster_field(p, field, foster_field_value(src, src_field))
    ELSE p

\* the foster child pointer is passed on only if it is not null
copy_foster_child(p, src) ==
    IF get_foster_child(src).ok
    THEN try_set_foster_field(p, FosterPtr, foster_field_value(src, FosterPtr))
    ELSE p

\* FosterNode::add_foster_child: what the child is given: the high key of node as both
\* fence keys, the foster key and the foster child of node
add_foster_child_child(child_page, node_page) ==
    copy_foster_child(
        copy_foster_field(
            copy_foster_field(
                copy_foster_field(child_page, LowKey, node_page, HighKey),
                HighKey, node_page, HighKey),
            FosterKey, node_page, FosterKey),
        node_page)

\* FosterNode::add_foster_child after set_foster_child(node, child) said s
add_foster_child_end(ns, node, child, s) ==
    [ok |-> s.ok,
     nodes |-> [ns EXCEPT ![child] = add_foster_child_child(ns[child], ns[node]),
                          ![node] = s.page]]

\* FosterNode::add_foster_child(node, child) on the pages ns; child is the id of a
\* page fresh from the node manager.  ok = FALSE: the final assert<0> throws.
add_foster_child(ns, node, child) ==
    add_foster_child_end(ns, node, child, set_foster_field(ns[node], FosterPtr, child))

\* FosterNode::rebalance without step 4: the foster child keeps the fence keys that
\* add_foster_child gave it
rebalance_without_fences(ns, node, child, split_key, m) ==
    [ns EXCEPT ![node] = try_set_foster_field(m.src, FosterKey, split_key),
               ![child] = m.dest]

\* FosterNode::rebalance, steps 3 and 4, after move_records said m: the split key
\* becomes the foster key of node and the low key of child, the high key of node
\* the high key of child
rebalance_keys(ns, node, child, split_key, m) ==
    [ns EXCEPT ![node] = try_set_foster_field(m.src, FosterKey, split_key),
               ![child] = copy_foster_field(
                              try_set_foster_field(m.dest, LowKey, split_key),
                              HighKey, m.src, HighKey)]

\* FosterNode::rebalance, steps 1 and 2, for the foster child read
rebalance_child(ns, node, child) ==
    rebalance_keys(ns, node, child,
        read_slot(ns[node], slot_count(ns[node]) \div 2).key,
        move_records(ns[child], 0, ns[node], slot_count(ns[node]) \div 2,
                     slot_count(ns[node]) - (slot_count(ns[node]) \div 2)))

\* FosterNode::rebalance(node): move the upper half of the records to the foster child
rebalance(ns, node) == rebalance_child(ns, node, foster_field_value(ns[node], FosterPtr))

\* FosterNode::split(node, new_node) after add_foster_child said a
split_end(node, a) ==
    IF a.ok THEN [ok |-> TRUE, nodes |-> rebalance(a.nodes, node)]
    ELSE [ok |-> FALSE, nodes |-> a.nodes]

\* FosterNode::split(node, new_node)
split(ns, node, new_node) == split_end(node, add_foster_child(ns, node, new_node))

\* FosterNode::all_keys_in_range
all_keys_in_range(p) ==
    \A i \in 1..slot_count(p) : key_range_contains(p, read_slot(p, i - 1).key)

-----------------------------------------------------------------------------
(* The latch: latch_mutex.h *)

\* std::atomic<unsigned> arithmetic of the latch counter wraps around.  The counter is
\* modelled 30 bits wide, the widest power of two whose sums the model checker's
\* integers hold; a subtraction below zero still wraps to a huge even number.
CounterWrap == 1073741824

has_writer(c) == c % 2 = WRITER_MASK

\* counter_ & ~WRITER_MASK
has_reader(c) == c \div 2 # 0

\* counter_ += c
counter_add(p, c) == [p EXCEPT !.counter = (@ + c) % CounterWrap]

\* A complete MutexLatch::acquire_write in a program with one thread: the spin of
\* add_when_writer_leaves and the spin on the readers end only if the counter lets
\* them; nobody else can change it.  The unique_lock declared in acquire_write is a
\* local variable named mutex_ and locks nothing.
seq_acquire_write(p) ==
    IF has_writer(p.counter) THEN [ok |-> FALSE, page |-> p]
    ELSE [ok |-> ~has_reader(p.counter + WRITER_MASK), page |-> counter_add(p, WRITER_MASK)]

\* A complete MutexLatch::acquire_read in a program with one thread
seq_acquire_read(p) ==
    IF has_writer(p.counter) THEN [ok |-> FALSE, page |-> p]
    ELSE [ok |-> TRUE, page |-> counter_add(p, READER_MASK)]

\* MutexLatch::release_write
release_write(p) == [p EXCEPT !.counter = 0]

\* MutexLatch::release_read
release_read(p) == counter_add(p, CounterWrap - READER_MASK)

\* FosterNode::latch_pointer in a program with one thread
seq_latch_pointer(p, ex_mode) ==
    IF p.level = 0 /\ ex_mode THEN seq_acquire_write(p) ELSE seq_acquire_read(p)

\* FosterNode::unlatch_pointer
unlatch_pointer(p, ex_mode) ==
    IF p.level = 0 /\ ex_mode THEN release_write(p) ELSE release_read(p)

-----------------------------------------------------------------------------
(* The tree operations run by one thread: btree.h, node_foster.h *)

\* the root page of GenericBtree
root_ == 1

\* The while loop of FosterNode::traverse: child is latched; follow the foster chain
\* until a node's key range contains the key.  res is "ok", "blocked" (a latch spins
\* forever) or "null" (the foster pointer followed is null).
RECURSIVE traverse_chain(_, _, _, _)
RECURSIVE traverse_hop(_, _, _, _, _, _)
traverse_chain(ns, child, key, for_update) ==
    IF key_range_contains(ns[child], key) THEN [res |-> "ok", node |-> child, nodes |-> ns]
    ELSE IF ~get_foster_child(ns[child]).ok
    THEN [res |-> "null", node |-> child, nodes |-> ns]
    ELSE traverse_hop(ns, child, foster_field_value(ns[child], FosterPtr), key, for_update,
             seq_latch_pointer(ns[foster_field_value(ns[child], FosterPtr)], for_update))

\* latch_pointer(foster) said l: unlatch_pointer(child), child = foster
traverse_hop(ns, child, foster, key, for_update, l) ==
    IF ~l.ok THEN [res |-> "blocked", node |-> child, nodes |-> [ns EXCEPT ![foster] = l.page]]
    ELSE traverse_chain(
             [ns EXCEPT ![foster] = l.page, ![child] = unlatch_pointer(ns[child], for_update)],
             foster, key, for_update)

\* FosterNode::traverse after latch_pointer(root) said l
traverse_root(ns, key, for_update, l) ==
    IF ~l.ok THEN [res |-> "blocked", node |-> root_, nodes |-> [ns EXCEPT ![root_] = l.page]]
    ELSE traverse_chain([ns EXCEPT ![root_] = l.page], root_, key, for_update)

\* FosterNode::traverse(root_, key, for_update, adoption) for a root of level 0, the
\* only level a GenericBtree's root ever has: no descent, no adoption
traverse(ns, key, for_update) ==
    traverse_root(ns, key, for_update, seq_latch_pointer(ns[root_], for_update))

\* The insertion of GenericBtree::put with its split loop; leaf is write-latched.
\* res is "ok" (inserted, latch released), "ExistentKey" or "AssertionFailure" (thrown
\* with the latch of leaf held), "blocked", or "nomem" (more than MaxNodes pages needed)
RECURSIVE put_loop(_, _, _, _, _)
RECURSIVE put_loop_inserted(_, _, _, _, _, _)
RECURSIVE put_loop_split(_, _, _, _, _)
RECURSIVE put_loop_latched(_, _, _, _, _, _)
put_loop(ns, nn, leaf, key, value) ==
    put_loop_inserted(ns, nn, leaf, key, value, insert(ns[leaf], key, value))

\* LeafNode::insert said i
put_loop_inserted(ns, nn, leaf, key, value, i) ==
    IF i.res = "ExistentKey" THEN [res |-> "ExistentKey", nodes |-> ns, nnodes |-> nn]
    ELSE IF i.res = "inserted"
    THEN [res |-> "ok", nodes |-> [ns EXCEPT ![leaf] = unlatch_pointer(i.page, TRUE)],
          nnodes |-> nn]
    ELSE IF nn >= MaxNodes THEN [res |-> "nomem", nodes |-> ns, nnodes |-> nn]
    ELSE put_loop_split(nn + 1, leaf, key, value,
             split([ns EXCEPT ![leaf] = i.page], leaf, nn + 1))

\* LeafNode::split(leaf, new_node) said s
put_loop_split(new_node, leaf, key, value, s) ==
    IF ~s.ok THEN [res |-> "AssertionFailure", nodes |-> s.nodes, nnodes |-> new_node]
    ELSE IF ~key_range_contains(s.nodes[leaf], key)
    THEN put_loop_latched(s.nodes, new_node, leaf, key, value,
             seq_latch_pointer(s.nodes[new_node], TRUE))
    ELSE put_loop(s.nodes, new_node, leaf, key, value)

\* latch_pointer(new_node) said l: unlatch_pointer(leaf), leaf = new_node
put_loop_latched(ns, new_node, leaf, key, value, l) ==
    IF ~l.ok THEN [res |-> "blocked", nodes |-> ns, nnodes |-> new_node]
    ELSE put_loop([ns EXCEPT ![new_node] = l.page,
                             ![leaf] = unlatch_pointer(ns[leaf], TRUE)],
                  new_node, new_node, key, value)

\* the upsert of GenericBtree::put: remove the key from the leaf if it is found
put_upsert(p, key, upsert) ==
    IF upsert /\ find_slot(p, key, FALSE).found THEN remove(p, key, TRUE).page ELSE p

\* GenericBtree::put after traverse said t
put_traversed(nn, key, value, upsert, t) ==
    IF t.res # "ok" THEN [res |-> t.res, nodes |-> t.nodes, nnodes |-> nn]
    ELSE put_loop([t.nodes EXCEPT ![t.node] = put_upsert(@, key, upsert)],
                  nn, t.node, key, value)

\* GenericBtree::put(key, value, upsert) run to its end by one thread
put(ns, nn, key, value, upsert) ==
    put_traversed(nn, key, value, upsert, traverse(ns, key, TRUE))

\* GenericBtree::get after LeafNode::find said f
get_found(t, f) ==
    [res |-> IF f.found THEN "found" ELSE "absent", value |-> f.value,
     nodes |-> [t.nodes EXCEPT ![t.node] = unlatch_pointer(@, FALSE)]]

\* GenericBtree::get after traverse said t
get_traversed(key, t) ==
    IF t.res # "ok" THEN [res |-> t.res, value |-> NoValue, nodes |-> t.nodes]
    ELSE get_found(t, find(t.nodes[t.node], key))

\* GenericBtree::get(key, value) run to its end by one thread
get(ns, key) == get_traversed(key, traverse(ns, key, FALSE))

\* GenericBtree::remove after LeafNode::remove said r
tree_remove_end(t, r) ==
    IF r.res = "KeyNotFound" THEN [res |-> "KeyNotFound", nodes |-> t.nodes]
    ELSE [res |-> "true", nodes |-> [t.nodes EXCEPT ![t.node] = unlatch_pointer(r.page, TRUE)]]

\* GenericBtree::remove after traverse said t
tree_remove_traversed(key, t) ==
    IF t.res # "ok" THEN [res |-> t.res, nodes |-> t.nodes]
    ELSE tree_remove_end(t, remove(t.nodes[t.node], key, TRUE))

\* GenericBtree::remove(key) run to its end by one thread: LeafNode::remove is
\* called with must_exist = true
tree_remove(ns, key) == tree_remove_traversed(key, traverse(ns, key, TRUE))

-----------------------------------------------------------------------------
(* State after construction *)

Nodes == 1..MaxNodes

Threads == 1..NumThreads

\* keys of the concurrent specification: thread t works on the keys whose first byte
\* is congruent to t modulo NumThreads; all PMNKs differ
ThreadKeys(t) == { <<t>>, <<t + NumThreads>> }

ConcKeys == UNION { ThreadKeys(t) : t \in Threads }

\* values of the concurrent specification
ConcValues == { <<i, i, i, i, i>> : i \in 1..NumValues }

NoOp == [op |-> "none", key |-> << >>, res |-> "none", out |-> NoValue]

\* A thread between calls.  pc: where the thread is in its call; op, key, value: the
\* call; node: the node whose latch the call holds; target, mode: the node whose latch
\* is being acquired and how; next: where the call goes on once the latch is granted;
\* expected: old_value of attempt_read, expected_previous of attempt_write; done: calls
\* ended; res, out: how the last call ended
IdleThread == [pc |-> "idle", op |-> "none", key |-> << >>, value |-> NoValue,
               node |-> NullNode, target |-> NullNode, mode |-> "", next |-> "",
               expected |-> 0, done |-> 0, res |-> "none", out |-> NoValue]

\* GenericBtree(): the root is the first page of the node manager, initialized as a
\* node of level 0; the other pages are as construct_node will hand them out
Init ==
    /\ nodes = [n \in Nodes |-> IF n = root_ THEN initialize(EmptyPage, 0) ELSE EmptyPage]
    /\ nnodes = 1
    /\ last = NoOp
    /\ stored = [k \in Keys \cup ConcKeys |-> NoValue]
    /\ th = [t \in Threads |-> IdleThread]
    /\ held = [t \in Threads |-> [n \in Nodes |-> ""]]
    /\ mutex = [n \in Nodes |-> 0]

-----------------------------------------------------------------------------
(* One thread calling put, get and remove: each action is a whole call *)

\* the thread of the sequential program can make a call: no earlier call of it spins
\* forever or has crashed
CanCall == last.res \notin {"blocked", "null"}

Put(key, value, upsert) ==
    /\ CanCall
    /\ \E r \in {put(nodes, nnodes, key, value, upsert)} :
        /\ r.res # "nomem"
        /\ nodes' = r.nodes
        /\ nnodes' = r.nnodes
        /\ last' = [op |-> "put", key |-> key, res |-> r.res, out |-> NoValue]
        /\ stored' = IF r.res = "ok" THEN [stored EXCEPT ![key] = value] ELSE stored
    /\ UNCHANGED <<th, held, mutex>>

Get(key) ==
    /\ CanCall
    /\ \E r \in {get(nodes, key)} :
        /\ nodes' = r.nodes
        /\ last' = [op |-> "get", key |-> key, res |-> r.res,
                    out |-> IF r.res = "found" THEN r.value ELSE NoValue]
    /\ UNCHANGED <<nnodes, stored, th, held, mutex>>

Remove(key) ==
    /\ CanCall
    /\ \E r \in {tree_remove(nodes, key)} :
        /\ nodes' = r.nodes
        /\ last' = [op |-> "remove", key |-> key, res |-> r.res, out |-> NoValue]
        /\ stored' = IF r.res = "true" THEN [stored EXCEPT ![key] = NoValue] ELSE stored
    /\ UNCHANGED <<nnodes, th, held, mutex>>

Next ==
    \/ \E key \in Keys : \E value \in ValuesOf(key) : Put(key, value, FALSE)
    \/ \E key \in Keys : \E value \in ValuesOf(key) :
           stored[key] # NoValue /\ Put(key, value, TRUE)
    \/ \E key \in Keys : Get(key)
    \/ \E key \in Keys : Remove(key)

Spec == Init /\ [][Next]_vars

-----------------------------------------------------------------------------
(* Insert-only use of the tree: puts of keys not yet put, and gets *)

PutNew(key, value) == stored[key] = NoValue /\ Put(key, value, FALSE)

NextPuts ==
    \/ \E key \in Keys : \E value \in ValuesOf(key) : PutNew(key, value)
    \/ \E key \in Keys : Get(key)

SpecPuts == Init /\ [][NextPuts]_vars

-----------------------------------------------------------------------------
(* A single node used through Node::insert, Node::remove and Node::find *)

\* the page of the single node
node_ == 1

InitNode ==
    /\ nodes = [n \in Nodes |-> EmptyPage]
    /\ nnodes = 1
    /\ last = NoOp
    /\ stored = [k \in Keys \cup ConcKeys |-> NoValue]
    /\ th = [t \in Threads |-> IdleThread]
    /\ held = [t \in Threads |-> [n \in Nodes |-> ""]]
    /\ mutex = [n \in Nodes |-> 0]

\* Node::insert of a key the node does not hold
NodeInsert(key, value) ==
    /\ stored[key] = NoValue
    /\ last.res # "KeyNotFound"
    /\ \E r \in {insert(nodes[node_], key, value)} :
        /\ nodes' = [nodes EXCEPT ![node_] = r.page]
        /\ last' = [op |-> "insert", key |-> key, res |-> r.res, out |-> NoValue]
        /\ stored' = IF r.res = "inserted" THEN [stored EXCEPT ![key] = value] ELSE stored
    /\ UNCHANGED <<nnodes, th, held, mutex>>

\* Node::remove of a key the node holds
NodeRemove(key) ==
    /\ stored[key] # NoValue
    /\ last.res # "KeyNotFound"
    /\ \E r \in {remove(nodes[node_], key, TRUE)} :
        /\ nodes' = [nodes EXCEPT ![node_] = r.page]
        /\ last' = [op |-> "remove", key |-> key, res |-> r.res, out |-> NoValue]
        /\ stored' = IF r.res = "removed" THEN [stored EXCEPT ![key] = NoValue] ELSE stored
    /\ UNCHANGED <<nnodes, th, held, mutex>>

\* Node::find(node, key, value)
NodeFind(key) ==
    /\ last.res # "KeyNotFound"
    /\ \E f \in {find(nodes[node_], key)} :
        last' = [op |-> "find", key |-> key,
                 res |-> IF f.found THEN "found" ELSE "absent",
                 out |-> IF f.found THEN f.value ELSE NoValue]
    /\ UNCHANGED <<nodes, nnodes, stored, th, held, mutex>>

NextNode ==
    \/ \E key \in Keys : \E value \in ValuesOf(key) : NodeInsert(key, value)
    \/ \E key \in Keys : NodeRemove(key)
    \/ \E key \in Keys : NodeFind(key)

SpecNode == InitNode /\ [][NextNode]_vars

-----------------------------------------------------------------------------
(* The latch used by several threads: latch_mutex.h, one atomic access per step *)

\* the latch counter of the node a thread is acquiring
target_counter(t) == nodes[th[t].target].counter

\* the calls that give up instead of waiting
NonBlocking == {"attempt_read", "attempt_write", "attempt_upgrade"}

\* where a failed attempt_read leads: attempt_read returns false, acquire_read goes
\* on to add_when_writer_leaves
after_failed_read(t) == IF th[t].op \in NonBlocking THEN "failed" ELSE "add_wait"

\* the latch of the target is granted to the thread in its mode
grant(t) == held' = [held EXCEPT ![t][th[t].target] = th[t].mode]

\* MutexLatch::attempt_read, the load of counter_ into old_value and the test for a
\* writer
AttemptReadLoad(t) ==
    /\ th[t].pc = "tr_load"
    /\ th' = [th EXCEPT ![t].expected = target_counter(t),
                        ![t].pc = IF has_writer(target_counter(t))
                                  THEN after_failed_read(t) ELSE "tr_cas"]
    /\ UNCHANGED <<nodes, nnodes, last, stored, held, mutex>>

\* MutexLatch::attempt_read, the compare_exchange_weak: it succeeds only if the
\* counter still is old_value, and may fail even then
AttemptReadCas(t) ==
    /\ th[t].pc = "tr_cas"
    /\ \/ /\ target_counter(t) = th[t].expected
          /\ nodes' = [nodes EXCEPT ![th[t].target] = counter_add(@, READER_MASK)]
          /\ th' = [th EXCEPT ![t].pc = "granted"]
          /\ grant(t)
       \/ /\ th' = [th EXCEPT ![t].pc = after_failed_read(t)]
          /\ UNCHANGED <<nodes, held>>
    /\ UNCHANGED <<nnodes, last, stored, mutex>>

\* MutexLatch::add_when_writer_leaves, the spin: it ends when a load of the counter
\* shows no writer.  The unique_lock declared before the call is a local variable
\* named mutex_: the mutex of the latch is not locked.
AddWait(t) ==
    /\ th[t].pc = "add_wait"
    /\ ~has_writer(target_counter(t))
    /\ th' = [th EXCEPT ![t].pc = "add"]
    /\ UNCHANGED <<nodes, nnodes, last, stored, held, mutex>>

\* MutexLatch::add_when_writer_leaves, counter_ += c.  acquire_read holds the latch
\* then; acquire_write goes on to wait for the readers.
Add(t) ==
    /\ th[t].pc = "add"
    /\ nodes' = [nodes EXCEPT ![th[t].target] =
                    counter_add(@, IF th[t].mode = "w" THEN WRITER_MASK ELSE READER_MASK)]
    /\ th' = [th EXCEPT ![t].pc = IF th[t].mode = "w" THEN "spin_readers" ELSE "granted"]
    /\ IF th[t].mode = "w" THEN UNCHANGED held ELSE grant(t)
    /\ UNCHANGED <<nnodes, last, stored, mutex>>

\* MutexLatch::acquire_write, while (has_reader());
SpinReaders(t) ==
    /\ th[t].pc = "spin_readers"
    /\ ~has_reader(target_counter(t))
    /\ th' = [th EXCEPT ![t].pc = "granted"]
    /\ grant(t)
    /\ UNCHANGED <<nodes, nnodes, last, stored, mutex>>

\* MutexLatch::attempt_write, if (counter_ != expected_previous) return false
AttemptWriteCheck(t) ==
    /\ th[t].pc = "tw_check"
    /\ th' = [th EXCEPT ![t].pc = IF target_counter(t) # th[t].expected
                                  THEN "failed" ELSE "tw_lock"]
    /\ UNCHANGED <<nodes, nnodes, last, stored, held, mutex>>

\* MutexLatch::attempt_write, if (!mutex_.try_lock()) return false
AttemptWriteLock(t) ==
    /\ th[t].pc = "tw_lock"
    /\ IF mutex[th[t].target] = 0
       THEN /\ mutex' = [mutex EXCEPT ![th[t].target] = t]
            /\ th' = [th EXCEPT ![t].pc = "tw_cas"]
       ELSE /\ th' = [th EXCEPT ![t].pc = "failed"]
            /\ UNCHANGED mutex
    /\ UNCHANGED <<nodes, nnodes, last, stored, held>>

\* MutexLatch::attempt_write, the compare_exchange_weak to WRITER_MASK and the unlock
\* of the mutex
AttemptWriteCas(t) ==
    /\ th[t].pc = "tw_cas"
    /\ mutex' = [mutex EXCEPT ![th[t].target] = 0]
    /\ \/ /\ target_counter(t) = th[t].expected
          /\ nodes' = [nodes EXCEPT ![th[t].target].counter = WRITER_MASK]
          /\ th' = [th EXCEPT ![t].pc = "granted"]
          /\ grant(t)
       \/ /\ th' = [th EXCEPT ![t].pc = "failed"]
          /\ UNCHANGED <<nodes, held>>
    /\ UNCHANGED <<nnodes, last, stored>>

-----------------------------------------------------------------------------
(* One latch called by several threads *)

\* the node whose latch the threads call
latch_ == 1

\* a thread may start a call
CanStart(t) == th[t].pc = "idle" /\ th[t].done < MaxCalls

\* the thread starts a call that acquires the latch
start_call(t, op, mode, pc, expected) ==
    th' = [th EXCEPT ![t].op = op, ![t].target = latch_, ![t].mode = mode,
                     ![t].pc = pc, ![t].expected = expected]

\* the thread's call ends
end_call(t, op, res) ==
    th' = [th EXCEPT ![t].op = op, ![t].pc = "idle", ![t].done = @ + 1, ![t].res = res]

CallAcquireRead(t) ==
    /\ CanStart(t) /\ held[t][latch_] = ""
    /\ start_call(t, "acquire_read", "r", "tr_load", 0)
    /\ UNCHANGED <<nodes, nnodes, last, stored, held, mutex>>

CallAttemptRead(t) ==
    /\ CanStart(t) /\ held[t][latch_] = ""
    /\ start_call(t, "attempt_read", "r", "tr_load", 0)
    /\ UNCHANGED <<nodes, nnodes, last, stored, held, mutex>>

CallAcquireWrite(t) ==
    /\ CanStart(t) /\ held[t][latch_] = ""
    /\ start_call(t, "acquire_write", "w", "add_wait", 0)
    /\ UNCHANGED <<nodes, nnodes, last, stored, held, mutex>>

CallAttemptWrite(t) ==
    /\ CanStart(t) /\ held[t][latch_] = ""
    /\ start_call(t, "attempt_write", "w", "tw_check", 0)
    /\ UNCHANGED <<nodes, nnodes, last, stored, held, mutex>>

\* MutexLatch::attempt_upgrade by a thread that holds the latch in read mode
CallAttemptUpgrade(t) ==
    /\ CanStart(t) /\ held[t][latch_] = "r"
    /\ start_call(t, "attempt_upgrade", "w", "tw_check", READER_MASK)
    /\ UNCHANGED <<nodes, nnodes, last, stored, held, mutex>>

\* MutexLatch::downgrade by a thread that holds the latch in write mode
CallDowngrade(t) ==
    /\ CanStart(t) /\ held[t][latch_] = "w"
    /\ nodes' = [nodes EXCEPT ![latch_].counter = READER_MASK]
    /\ held' = [held EXCEPT ![t][latch_] = "r"]
    /\ end_call(t, "downgrade", "done")
    /\ UNCHANGED <<nnodes, last, stored, mutex>>

\* MutexLatch::release_read by a thread that holds the latch in read mode
CallReleaseRead(t) ==
    /\ CanStart(t) /\ held[t][latch_] = "r"
    /\ nodes' = [nodes EXCEPT ![latch_] = release_read(@)]
    /\ held' = [held EXCEPT ![t][latch_] = ""]
    /\ end_call(t, "release_read", "done")
    /\ UNCHANGED <<nnodes, last, stored, mutex>>

\* MutexLatch::release_write by a thread that holds the latch in write mode
CallReleaseWrite(t) ==
    /\ CanStart(t) /\ held[t][latch_] = "w"
    /\ nodes' = [nodes EXCEPT ![latch_] = release_write(@)]
    /\ held' = [held EXCEPT ![t][latch_] = ""]
    /\ end_call(t, "release_write", "done")
    /\ UNCHANGED <<nnodes, last, stored, mutex>>

\* an acquire_... or attempt_... returns
LatchReturn(t) ==
    /\ th[t].pc \in {"granted", "failed"}
    /\ end_call(t, th[t].op, th[t].pc)
    /\ UNCHANGED <<nodes, nnodes, last, stored, held, mutex>>

NextLatch ==
    \E t \in Threads :
        \/ CallAcquireRead(t) \/ CallAttemptRead(t)
        \/ CallAcquireWrite(t) \/ CallAttemptWrite(t)
        \/ CallAttemptUpgrade(t) \/ CallDowngrade(t)
        \/ CallReleaseRead(t) \/ CallReleaseWrite(t)
        \/ AttemptReadLoad(t) \/ AttemptReadCas(t)
        \/ AddWait(t) \/ Add(t) \/ SpinReaders(t)
        \/ AttemptWriteCheck(t) \/ AttemptWriteLock(t) \/ AttemptWriteCas(t)
        \/ LatchReturn(t)

SpecLatch == InitNode /\ [][NextLatch]_vars

-----------------------------------------------------------------------------
(* GenericBtree called by several threads, one latch access or node operation per
   step.  Each thread works on keys of its own and makes no call that is a user
   error: it puts keys it has not stored and removes keys it has stored. *)

\* a thread may start a call on the tree
CanStartOp(t) == th[t].pc = "idle" /\ th[t].done < MaxOps

\* the call begins with traverse(root_, key, for_update): latch_pointer(root_,
\* for_update), acquire_write or acquire_read on the root.  Every node of the tree has
\* level 0, so that latch_pointer takes the write latch whenever for_update is set.
start_op(t, op, key, value) ==
    th' = [th EXCEPT ![t].op = op, ![t].key = key, ![t].value = value,
                     ![t].node = NullNode, ![t].target = root_,
                     ![t].mode = IF op = "get" THEN "r" ELSE "w",
                     ![t].pc = IF op = "get" THEN "tr_load" ELSE "add_wait",
                     ![t].next = "check", ![t].res = "none", ![t].out = NoValue]

\* the call ends: by returning, or by an exception that leaves its latch held
end_op(t, res, out) ==
    th' = [th EXCEPT ![t].pc = "idle", ![t].done = @ + 1, ![t].res = res,
                     ![t].out = out, ![t].node = NullNode, ![t].target = NullNode]

StartPut(t, key, value) ==
    /\ CanStartOp(t) /\ stored[key] = NoValue
    /\ start_op(t, "put", key, value)
    /\ UNCHANGED <<nodes, nnodes, last, stored, held, mutex>>

StartGet(t, key) ==
    /\ CanStartOp(t)
    /\ start_op(t, "get", key, NoValue)
    /\ UNCHANGED <<nodes, nnodes, last, stored, held, mutex>>

StartRemove(t, key) ==
    /\ CanStartOp(t) /\ stored[key] # NoValue
    /\ start_op(t, "remove", key, NoValue)
    /\ UNCHANGED <<nodes, nnodes, last, stored, held, mutex>>

\* the node a thread goes on with, once it has stepped to the node it has latched
step_to_target(t, ns) ==
    /\ nodes' = ns
    /\ th' = [th EXCEPT ![t].node = th[t].target, ![t].target = NullNode,
                        ![t].pc = th[t].next]

\* latch_pointer has returned.  On the root the thread goes on; on a foster child
\* (traverse) or a new node (put) it first releases the node it came from:
\* unlatch_pointer(child, for_update)
Latched(t) ==
    /\ th[t].pc = "granted"
    /\ IF th[t].node = NullNode
       THEN /\ step_to_target(t, nodes)
            /\ UNCHANGED held
       ELSE /\ step_to_target(t, [nodes EXCEPT ![th[t].node] =
                                          unlatch_pointer(@, th[t].mode = "w")])
            /\ held' = [held EXCEPT ![t][th[t].node] = ""]
    /\ UNCHANGED <<nnodes, last, stored, mutex>>

\* where the call goes on in the node that holds the key's range
op_step(op) == IF op = "put" THEN "insert" ELSE IF op = "get" THEN "find" ELSE "remove"

\* traverse, the loop over the foster chain: the node is the result if its key range
\* contains the key, else the thread latches the foster child; a null foster child is
\* dereferenced
CheckRange(t) ==
    /\ th[t].pc = "check"
    /\ IF key_range_contains(nodes[th[t].node], th[t].key)
       THEN th' = [th EXCEPT ![t].pc = op_step(th[t].op)]
       ELSE IF get_foster_child(nodes[th[t].node]).ok
       THEN th' = [th EXCEPT ![t].target = get_foster_child(nodes[th[t].node]).value,
                             ![t].pc = IF th[t].mode = "w" THEN "add_wait" ELSE "tr_load",
                             ![t].next = "check"]
       ELSE end_op(t, "null", NoValue)
    /\ UNCHANGED <<nodes, nnodes, last, stored, held, mutex>>

\* the result of LeafNode::insert in put
insert_step(t, i) ==
    IF i.res = "inserted"
    THEN /\ nodes' = [nodes EXCEPT ![th[t].node] = i.page]
         /\ th' = [th EXCEPT ![t].pc = "unlatch"]
         /\ UNCHANGED stored
    ELSE IF i.res = "full"
    THEN /\ th' = [th EXCEPT ![t].pc = "split"]
         /\ UNCHANGED <<nodes, stored>>
    ELSE /\ end_op(t, "ExistentKey", NoValue)
         /\ stored' = [stored EXCEPT ![th[t].key] = th[t].value]
         /\ UNCHANGED nodes

\* put, inserted = LeafNode::insert(leaf, key, value)
InsertStep(t) ==
    /\ th[t].pc = "insert"
    /\ \E i \in {insert(nodes[th[t].node], th[t].key, th[t].value)} : insert_step(t, i)
    /\ UNCHANGED <<nnodes, last, held, mutex>>

\* the result of LeafNode::split in put, and the choice between the old and the new
\* node
split_step(t, new_node, s) ==
    IF ~s.ok
    THEN /\ end_op(t, "AssertionFailure", NoValue)
         /\ stored' = [stored EXCEPT ![th[t].key] = th[t].value]
         /\ UNCHANGED nodes
    ELSE /\ nodes' = s.nodes
         /\ UNCHANGED stored
         /\ IF key_range_contains(s.nodes[th[t].node], th[t].key)
            THEN th' = [th EXCEPT ![t].pc = "insert"]
            ELSE th' = [th EXCEPT ![t].target = new_node, ![t].pc = "add_wait",
                                  ![t].next = "insert"]

\* put, the body of while (!inserted): construct_node and split
SplitStep(t) ==
    /\ th[t].pc = "split"
    /\ nnodes < MaxNodes
    /\ nnodes' = nnodes + 1
    /\ \E s \in {split(nodes, th[t].node, nnodes + 1)} : split_step(t, nnodes + 1, s)
    /\ UNCHANGED <<last, held, mutex>>

\* get, LeafNode::find(leaf, key, value)
FindStep(t) ==
    /\ th[t].pc = "find"
    /\ \E f \in {find(nodes[th[t].node], th[t].key)} :
           th' = [th EXCEPT ![t].pc = "unlatch",
                            ![t].res = IF f.found THEN "found" ELSE "absent",
                            ![t].out = IF f.found THEN f.value ELSE NoValue]
    /\ UNCHANGED <<nodes, nnodes, last, stored, held, mutex>>

\* the result of LeafNode::remove in remove
remove_step(t, r) ==
    IF r.res = "removed"
    THEN /\ nodes' = [nodes EXCEPT ![th[t].node] = r.page]
         /\ th' = [th EXCEPT ![t].pc = "unlatch"]
         /\ UNCHANGED stored
    ELSE /\ end_op(t, "KeyNotFound", NoValue)
         /\ stored' = [stored EXCEPT ![th[t].key] = NoValue]
         /\ UNCHANGED nodes

\* remove, LeafNode::remove(leaf, key)
RemoveStep(t) ==
    /\ th[t].pc = "remove"
    /\ \E r \in {remove(nodes[th[t].node], th[t].key, TRUE)} : remove_step(t, r)
    /\ UNCHANGED <<nnodes, last, held, mutex>>

\* what the keys hold once the call has returned
stored_after(t) ==
    IF th[t].op = "put" THEN [stored EXCEPT ![th[t].key] = th[t].value]
    ELSE IF th[t].op = "remove" THEN [stored EXCEPT ![th[t].key] = NoValue]
    ELSE stored

\* the last statement of put, get and remove: unlatch_pointer(leaf, for_update), and
\* the return
Unlatch(t) ==
    /\ th[t].pc = "unlatch"
    /\ nodes' = [nodes EXCEPT ![th[t].node] = unlatch_pointer(@, th[t].mode = "w")]
    /\ held' = [held EXCEPT ![t][th[t].node] = ""]
    /\ stored' = stored_after(t)
    /\ end_op(t, IF th[t].op = "get" THEN th[t].res
                 ELSE IF th[t].op = "put" THEN "ok" ELSE "true", th[t].out)
    /\ UNCHANGED <<nnodes, last, mutex>>

NextConc ==
    \E t \in Threads :
        \/ \E key \in ThreadKeys(t) : \E value \in ConcValues : StartPut(t, key, value)
        \/ \E key \in ThreadKeys(t) : StartGet(t, key)
        \/ \E key \in ThreadKeys(t) : StartRemove(t, key)
        \/ AttemptReadLoad(t) \/ AttemptReadCas(t)
        \/ AddWait(t) \/ Add(t) \/ SpinReaders(t)
        \/ Latched(t) \/ CheckRange(t)
        \/ InsertStep(t) \/ SplitStep(t) \/ FindStep(t) \/ RemoveStep(t)
        \/ Unlatch(t)

SpecConc == Init /\ [][NextConc]_vars

-----------------------------------------------------------------------------
(* Puts that overwrite: put(key, value, upsert = true) *)

\* GenericBtree::put with upsert set, of any key
Upsert(key, value) ==
    /\ CanCall
    /\ \E r \in {put(nodes, nnodes, key, value, TRUE)} :
        /\ r.res # "nomem"
        /\ nodes' = r.nodes
        /\ nnodes' = r.nnodes
        /\ last' = [op |-> "upsert", key |-> key, res |-> r.res, out |-> NoValue]
        /\ stored' = IF r.res = "ok" THEN [stored EXCEPT ![key] = value] ELSE stored
    /\ UNCHANGED <<th, held, mutex>>

NextUpsert ==
    \/ \E key \in Keys : \E value \in ValuesOf(key) : PutNew(key, value)
    \/ \E key \in Keys : \E value \in UpsertValuesOf(key) : Upsert(key, value)
    \/ \E key \in Keys : Get(key)

SpecUpsert == Init /\ [][NextUpsert]_vars


-----------------------------------------------------------------------------
(* A single node that is split: FosterNode::split on pages fresh from the node manager *)

\* FosterNode::split(node, new_node) of the node, with the next new page as new_node
NodeSplit ==
    /\ nnodes < MaxNodes
    /\ last.res \notin {"KeyNotFound", "AssertionFailure"}
    /\ slot_count(nodes[node_]) >= 2
    /\ \E r \in {split(nodes, node_, nnodes + 1)} :
        /\ nodes' = r.nodes
        /\ last' = [op |-> "split", key |-> << >>,
                    res |-> IF r.ok THEN "ok" ELSE "AssertionFailure", out |-> NoValue]
    /\ nnodes' = nnodes + 1
    /\ UNCHANGED <<stored, th, held, mutex>>

NextSplit ==
    \/ \E key \in Keys : \E value \in ValuesOf(key) \cup UpsertValuesOf(key) :
           NodeInsert(key, value)
    \/ \E key \in Keys : NodeRemove(key)
    \/ NodeSplit

SpecSplit == InitNode /\ [][NextSplit]_vars

-----------------------------------------------------------------------------
(* Branch nodes: descent and adoption (node_foster.h, adoption.h), growth *)

\* A node pointer as the value of a branch record.  DefaultEncoder<string, V> stores
\* the sizeof(V) bytes of the pointer behind the key; the pointer is carried here as a
\* value of as many bytes as make the record LengthBytes + key.length() + PointerBytes
\* bytes long.
ptr_value(n) == <<n>> \o [i \in 1..(PointerBytes - LengthBytes - 1) |-> 0]

\* the node pointer decoded from a record's value; null if no value was decoded
value_ptr(v) == IF Len(v) = 0 THEN NullNode ELSE v[1]

\* internal::GetMinimumKeyValue<string>
GetMinimumKeyValue == << >>

\* MutexLatch::attempt_upgrade in a program with one thread; cas: the
\* compare_exchange_weak of attempt_write does not fail spuriously
seq_attempt_upgrade(p, cas) ==
    IF p.counter = READER_MASK /\ cas
    THEN [ok |-> TRUE, page |-> [p EXCEPT !.counter = WRITER_MASK]]
    ELSE [ok |-> FALSE, page |-> p]

\* MutexLatch::downgrade
downgrade(p) == [p EXCEPT !.counter = READER_MASK]

\* FosterNode::unset_foster_field: the length freed is that of an encoded node pointer
\* (Encoder<N>), the payload pointers of the other fields stay as they are
unset_foster_field(p, field) ==
    IF ~is_valid_foster_field(p, field) THEN p
    ELSE [free_payload(p, p.foster_payloads[field], PointerBytes)
             EXCEPT !.foster_payload_valid[field] = FALSE]

\* FosterNode::unset_foster_child
unset_foster_child(p) == unset_foster_field(p, FosterPtr)

\* EagerAdoption::do_adopt without the insertion into the parent: the separator and the
\* pointer to the foster child are dropped
do_adopt_without_insert(ns, nn, parent, foster_key, foster) ==
    [res |-> "ok", nodes |-> ns, nnodes |-> nn, parent |-> parent]

\* The insertion of EagerAdoption::do_adopt with its split loop; parent is
\* write-latched.  res is "ok", "ExistentKey" or "AssertionFailure" (thrown), "blocked"
\* or "nomem" (more than MaxNodes pages needed); parent is the node inserted into.
RECURSIVE do_adopt_loop(_, _, _, _, _)
RECURSIVE do_adopt_inserted(_, _, _, _, _, _)
RECURSIVE do_adopt_split(_, _, _, _, _)
RECURSIVE do_adopt_latched(_, _, _, _, _, _)
do_adopt_loop(ns, nn, parent, foster_key, foster) ==
    do_adopt_inserted(ns, nn, parent, foster_key, foster,
        insert(ns[parent], foster_key, ptr_value(foster)))

\* Node::insert(parent, foster_key, foster) said i
do_adopt_inserted(ns, nn, parent, foster_key, foster, i) ==
    IF i.res = "ExistentKey"
    THEN [res |-> "ExistentKey", nodes |-> ns, nnodes |-> nn, parent |-> parent]
    ELSE IF i.res = "inserted"
    THEN [res |-> "ok", nodes |-> [ns EXCEPT ![parent] = i.page], nnodes |-> nn,
          parent |-> parent]
    ELSE IF nn >= MaxNodes
    THEN [res |-> "nomem", nodes |-> ns, nnodes |-> nn, parent |-> parent]
    ELSE do_adopt_split(nn + 1, parent, foster_key, foster,
             split([ns EXCEPT ![parent] = i.page], parent, nn + 1))

\* Node::split(parent, new_node) said s; new_node is a page fresh from the node manager
do_adopt_split(new_node, parent, foster_key, foster, s) ==
    IF ~s.ok
    THEN [res |-> "AssertionFailure", nodes |-> s.nodes, nnodes |-> new_node,
          parent |-> parent]
    ELSE IF ~key_range_contains(s.nodes[parent], foster_key)
    THEN do_adopt_latched(s.nodes, new_node, parent, foster_key, foster,
             seq_acquire_write(s.nodes[new_node]))
    ELSE do_adopt_loop(s.nodes, new_node, parent, foster_key, foster)

\* new_node->acquire_write() said l: parent->release_write(), parent = new_node
do_adopt_latched(ns, new_node, parent, foster_key, foster, l) ==
    IF ~l.ok
    THEN [res |-> "blocked", nodes |-> ns, nnodes |-> new_node, parent |-> parent]
    ELSE do_adopt_loop([ns EXCEPT ![new_node] = l.page,
                                  ![parent] = release_write(ns[parent])],
                       new_node, new_node, foster_key, foster)

\* The end of EagerAdoption::do_adopt after the insertion said r: the foster child of
\* child is unset; that is all that is done to child
do_adopt_end(child, r) ==
    IF r.res # "ok" THEN r
    ELSE [r EXCEPT !.nodes = [r.nodes EXCEPT ![child] = unset_foster_child(@)]]

\* EagerAdoption::do_adopt(parent, child, foster)
do_adopt(ns, nn, parent, child, foster) ==
    do_adopt_end(child,
        do_adopt_loop(ns, nn, parent, foster_field_value(ns[child], FosterKey), foster))

\* The end of EagerAdoption::try_adopt after do_adopt said r: the latches taken are
\* downgraded; an exception leaves them as they are
try_adopt_end(child, child_latch_upgraded, r) ==
    IF r.res # "ok" THEN r
    ELSE [r EXCEPT !.nodes = [r.nodes EXCEPT
              ![r.parent] = downgrade(@),
              ![child] = IF child_latch_upgraded THEN downgrade(@) ELSE @]]

\* try_adopt that leaves the parent in write mode when the child cannot be upgraded
try_adopt_child_without_downgrade(ns, nn, parent, child, u) ==
    IF ~u.ok
    THEN [res |-> "no", nodes |-> ns, nnodes |-> nn, parent |-> parent]
    ELSE try_adopt_end(child, TRUE,
             do_adopt([ns EXCEPT ![child] = u.page], nn, parent, child,
                      foster_field_value(ns[child], FosterPtr)))

\* EagerAdoption::try_adopt once parent is upgraded, after child->attempt_upgrade()
\* said u
try_adopt_child(ns, nn, parent, child, u) ==
    IF ~u.ok
    THEN [res |-> "no", nodes |-> [ns EXCEPT ![parent] = downgrade(@)], nnodes |-> nn,
          parent |-> parent]
    ELSE try_adopt_end(child, TRUE,
             do_adopt([ns EXCEPT ![child] = u.page], nn, parent, child,
                      foster_field_value(ns[child], FosterPtr)))

\* EagerAdoption::try_adopt after parent->attempt_upgrade() said u
try_adopt_parent(ns, nn, parent, child, cas, u) ==
    IF ~u.ok THEN [res |-> "no", nodes |-> ns, nnodes |-> nn, parent |-> parent]
    ELSE IF has_reader(ns[child].counter)
    THEN try_adopt_child([ns EXCEPT ![parent] = u.page], nn, parent, child,
             seq_attempt_upgrade(ns[child], cas))
    ELSE try_adopt_end(child, FALSE,
             do_adopt([ns EXCEPT ![parent] = u.page], nn, parent, child,
                      foster_field_value(ns[child], FosterPtr)))

\* EagerAdoption::try_adopt(parent, child).  res is "ok" (adopted, true is returned),
\* "no" (false is returned) or as in do_adopt.
try_adopt(ns, nn, parent, child, cas) ==
    IF ~get_foster_child(ns[child]).ok
    THEN [res |-> "no", nodes |-> ns, nnodes |-> nn, parent |-> parent]
    ELSE try_adopt_parent(ns, nn, parent, child, cas, seq_attempt_upgrade(ns[parent], cas))

\* FosterNode::descend_to_child(branch, key, for_update, adoption); branch is latched.
\* res is "ok" (node is the child, latched), "null" (a null or wild pointer is
\* followed) or as in try_adopt.
RECURSIVE descend_to_child(_, _, _, _, _, _)
RECURSIVE descend_hop(_, _, _, _, _, _, _, _)
RECURSIVE descend_child(_, _, _, _, _, _, _)
RECURSIVE descend_latched(_, _, _, _, _, _, _, _)
RECURSIVE descend_adopted(_, _, _, _, _)
descend_to_child(ns, nn, branch, key, for_update, cas) ==
    IF key_range_contains(ns[branch], key)
    THEN descend_child(ns, nn, branch, value_ptr(find(ns[branch], key).value), key,
                       for_update, cas)
    ELSE IF foster_field_value(ns[branch], FosterPtr) = NullNode
    THEN [res |-> "null", node |-> branch, nodes |-> ns, nnodes |-> nn]
    ELSE descend_hop(ns, nn, branch, foster_field_value(ns[branch], FosterPtr), key,
             for_update, cas,
             seq_latch_pointer(ns[foster_field_value(ns[branch], FosterPtr)], for_update))

\* latch_pointer(foster) said l: unlatch_pointer(branch), branch = foster
descend_hop(ns, nn, branch, foster, key, for_update, cas, l) ==
    IF ~l.ok THEN [res |-> "blocked", node |-> branch, nodes |-> ns, nnodes |-> nn]
    ELSE descend_to_child(
             [ns EXCEPT ![foster] = l.page, ![branch] = unlatch_pointer(ns[branch], for_update)],
             nn, foster, key, for_update, cas)

\* BaseNode::find(branch, key, child) has decoded child
descend_child(ns, nn, branch, child, key, for_update, cas) ==
    IF child \notin 1..nn
    THEN [res |-> "null", node |-> branch, nodes |-> ns, nnodes |-> nn]
    ELSE descend_latched(ns, nn, branch, child, key, for_update, cas,
             seq_latch_pointer(ns[child], for_update))

\* latch_pointer(child) said l
descend_latched(ns, nn, branch, child, key, for_update, cas, l) ==
    IF ~l.ok THEN [res |-> "blocked", node |-> branch, nodes |-> ns, nnodes |-> nn]
    ELSE descend_adopted(child, key, for_update, cas,
             try_adopt([ns EXCEPT ![child] = l.page], nn, branch, child, cas))

\* try_adopt(branch, child) said r: after an adoption the child is unlatched and the
\* search is repeated in the node that try_adopt left in branch
descend_adopted(child, key, for_update, cas, r) ==
    IF r.res = "ok"
    THEN descend_to_child([r.nodes EXCEPT ![child] = unlatch_pointer(@, for_update)],
                          r.nnodes, r.parent, key, for_update, cas)
    ELSE [res |-> IF r.res = "no" THEN "ok" ELSE r.res, node |-> child,
          nodes |-> r.nodes, nnodes |-> r.nnodes]

\* FosterNode::traverse(branch, key, for_update, adoption, depth) behind the latching of
\* the root: the descent, the release of branch, the walk along the foster chain and
\* the recursion into the next level
RECURSIVE traverse_level(_, _, _, _, _, _)
RECURSIVE traverse_descended(_, _, _, _, _)
RECURSIVE traverse_found(_, _, _, _, _)
traverse_level(ns, nn, branch, key, for_update, cas) ==
    IF ns[branch].level = 0
    THEN traverse_found(nn, key, for_update, cas, traverse_chain(ns, branch, key, for_update))
    ELSE traverse_descended(branch, key, for_update, cas,
             descend_to_child(ns, nn, branch, key, for_update, cas))

\* descend_to_child said d: the node traverse was called with is unlatched
traverse_descended(branch, key, for_update, cas, d) ==
    IF d.res # "ok" THEN d
    ELSE traverse_found(d.nnodes, key, for_update, cas,
             traverse_chain([d.nodes EXCEPT ![branch] = unlatch_pointer(@, for_update)],
                            d.node, key, for_update))

\* the foster chain walk said c
traverse_found(nn, key, for_update, cas, c) ==
    IF c.res # "ok" \/ c.nodes[c.node].level = 0
    THEN [res |-> c.res, node |-> c.node, nodes |-> c.nodes, nnodes |-> nn]
    ELSE traverse_level(c.nodes, nn, c.node, key, for_update, cas)

\* FosterNode::traverse(root_, key, for_update, adoption) after latch_pointer(root) said l
traverse_latched(ns, nn, key, for_update, cas, l) ==
    IF ~l.ok
    THEN [res |-> "blocked", node |-> root_, nodes |-> [ns EXCEPT ![root_] = l.page],
          nnodes |-> nn]
    ELSE traverse_level([ns EXCEPT ![root_] = l.page], nn, root_, key, for_update, cas)

\* FosterNode::traverse(root_, key, for_update, adoption) for a root of any level
traverse_adopting(ns, nn, key, for_update, cas) ==
    traverse_latched(ns, nn, key, for_update, cas, seq_latch_pointer(ns[root_], for_update))

\* grow(root, new_child) that leaves the foster child of the root behind
grow_child_without_foster(root_page, m) == [m.dest EXCEPT !.level = root_page.level]

\* grow(root, new_child): what new_child is made of.  The child is a page fresh from
\* the node manager; it takes the level of the root, the records of the root (m: the
\* outcome of moving them), its foster pointer and its foster key.
grow_child(root_page, m) ==
    copy_foster_field(
        copy_foster_child([m.dest EXCEPT !.level = root_page.level], root_page),
        FosterKey, root_page, FosterKey)

\* grow(root, new_child): the root page is rewritten as a node one level up, without
\* foster child, foster key and fence keys, that holds the one record
\* (minimum key, new_child).  Its latch is not touched.
grow_root(root_page, new_child) ==
    insert(initialize([EmptyPageOf(get_payload_end(root_page)) EXCEPT
                          !.counter = root_page.counter],
                      root_page.level + 1),
           GetMinimumKeyValue, ptr_value(new_child)).page

\* grow(root, new_child) on the pages ns
grow(ns, root, new_child) ==
    [ns EXCEPT
        ![new_child] = grow_child(ns[root],
            move_records(ns[new_child], 0, ns[root], 0, slot_count(ns[root]))),
        ![root] = grow_root(ns[root], new_child)]

\* the values the keys are put with under a root of any level: the longest ones
\* (records of two blocks) for every other key of AllKeys, the shortest ones for
\* every key but the first
BranchValuesOf(key) ==
    (IF KeyIndex(key) % 2 = 1 THEN { v \in UpsertValuesOf(key) : Len(v) = NumUpsertValues }
     ELSE {}) \cup
    (IF KeyIndex(key) > 1 THEN ValuesOf(key) ELSE {})

\* the tree grows by one level after its root has split; new_child is the next page
\* of the node manager
Grow ==
    /\ CanCall
    /\ nnodes < MaxNodes
    /\ get_foster_child(nodes[root_]).ok
    /\ nodes[root_].level < MaxLevel
    /\ nodes' = grow(nodes, root_, nnodes + 1)
    /\ nnodes' = nnodes + 1
    /\ last' = [op |-> "grow", key |-> << >>, res |-> "ok", out |-> NoValue]
    /\ UNCHANGED <<stored, th, held, mutex>>

\* The latch counters stay within MaxDrift acquisitions of zero: a latch that is left
\* held, or released twice, by every call makes its counter drift without end
counters_bounded(ns) ==
    \A n \in Nodes : \/ ns[n].counter <= READER_MASK * MaxDrift + WRITER_MASK
                    \/ ns[n].counter >= CounterWrap - READER_MASK * MaxDrift

\* GenericBtree::put(key, value) of a key that is not stored, through a root of any
\* level; cas: the outcome of the compare-exchange of an attempt_upgrade, which a
\* traversal from a root of level 0 never calls
BranchPut(key, value, cas) ==
    /\ CanCall
    /\ stored[key] = NoValue
    /\ nodes[root_].level = 0 => cas
    /\ \E t \in {traverse_adopting(nodes, nnodes, key, TRUE, cas)} :
       \E r \in {put_traversed(t.nnodes, key, value, FALSE, t)} :
        /\ r.res # "nomem"
        /\ counters_bounded(r.nodes)
        /\ nodes' = r.nodes
        /\ nnodes' = r.nnodes
        /\ last' = [op |-> "put", key |-> << >>, res |-> r.res, out |-> NoValue]
        /\ stored' = IF r.res = "ok" THEN [stored EXCEPT ![key] = value] ELSE stored
    /\ UNCHANGED <<th, held, mutex>>

\* GenericBtree::get(key, value) through a branch root (Get is the one through a leaf)
BranchGet(key, cas) ==
    /\ CanCall
    /\ nodes[root_].level > 0
    /\ \E t \in {traverse_adopting(nodes, nnodes, key, FALSE, cas)} :
       \E r \in {get_traversed(key, t)} :
        /\ r.res # "nomem"
        /\ counters_bounded(r.nodes)
        /\ nodes' = r.nodes
        /\ nnodes' = t.nnodes
        /\ last' = [op |-> "get", key |-> << >>, res |-> r.res, out |-> NoValue]
    /\ UNCHANGED <<stored, th, held, mutex>>

\* GenericBtree::remove(key) of a stored key through a branch root (Remove is the one
\* through a leaf)
BranchRemove(key, cas) ==
    /\ CanCall
    /\ nodes[root_].level > 0
    /\ stored[key] # NoValue
    /\ \E t \in {traverse_adopting(nodes, nnodes, key, TRUE, cas)} :
       \E r \in {tree_remove_traversed(key, t)} :
        /\ r.res # "nomem"
        /\ counters_bounded(r.nodes)
        /\ nodes' = r.nodes
        /\ nnodes' = t.nnodes
        /\ last' = [op |-> "remove", key |-> << >>, res |-> r.res, out |-> NoValue]
        /\ stored' = IF r.res = "true" THEN [stored EXCEPT ![key] = NoValue] ELSE stored
    /\ UNCHANGED <<th, held, mutex>>

NextBranch ==
    \/ \E key \in Keys : \E value \in BranchValuesOf(key) :
       \E cas \in BOOLEAN : BranchPut(key, value, cas)
    \/ \E key \in Keys : \E cas \in BOOLEAN : BranchGet(key, cas)
    \/ \E key \in Keys : \E cas \in BOOLEAN : BranchRemove(key, cas)
    \/ Grow

\* GenericBtree() on pages of PayloadCount or of BranchPayloadCount blocks
InitBranch ==
    /\ \E payload_count \in {PayloadCount, BranchPayloadCount} :
         nodes = [n \in Nodes |-> IF n = root_ THEN initialize(EmptyPageOf(payload_count), 0)
                                  ELSE EmptyPageOf(payload_count)]
    /\ nnodes = 1
    /\ last = NoOp
    /\ stored = [k \in Keys \cup ConcKeys |-> NoValue]
    /\ th = [t \in Threads |-> IdleThread]
    /\ held = [t \in Threads |-> [n \in Nodes |-> ""]]
    /\ mutex = [n \in Nodes |-> 0]

SpecBranch == InitBranch /\ [][NextBranch]_vars

-----------------------------------------------------------------------------
(* Two nodes between which records are moved: RecordMover::move_records *)

\* the page records are moved into and the page they are moved out of
dest_ == 1
src_ == 2

\* the values the records of src hold: the shortest and the longest ones
MoveValuesOf(key) ==
    ValuesOf(key) \cup { v \in UpsertValuesOf(key) : Len(v) = NumUpsertValues }

\* Node::insert into one of the two pages, dest before src
MoveInsert(n, key, value) ==
    /\ last.op # "move"
    /\ n = dest_ => slot_count(nodes[src_]) = 0
    /\ \E r \in {insert(nodes[n], key, value)} :
        /\ r.res = "inserted"
        /\ nodes' = [nodes EXCEPT ![n] = r.page]
        /\ last' = [op |-> "insert", key |-> << >>, res |-> r.res, out |-> NoValue]
    /\ UNCHANGED <<nnodes, stored, th, held, mutex>>

\* RecordMover::move_records(dest, dest_slot, src, src_slot, count) on the two pages;
\* last keeps the arguments; out: the number of records the copy loop had copied
\* when it ended
MoveRecords(dest_slot, src_slot, count) ==
    /\ last.op # "move"
    /\ dest_slot <= slot_count(nodes[dest_])
    /\ src_slot + count <= slot_count(nodes[src_])
    /\ \E c \in {copy_records(nodes[dest_], nodes[src_], src_slot, dest_slot,
                              src_slot + count - 1)} :
       \E r \in {move_records_end(dest_slot, nodes[src_], src_slot, count, c)} :
        /\ nodes' = [nodes EXCEPT ![dest_] = r.dest, ![src_] = r.src]
        /\ last' = [op |-> "move", key |-> << >>,
                    res |-> IF r.ok THEN "true" ELSE "false", out |-> <<c.j - dest_slot>>,
                    dest_slot |-> dest_slot, src_slot |-> src_slot, count |-> count]
    /\ UNCHANGED <<nnodes, stored, th, held, mutex>>

NextMove ==
    \/ \E key \in Keys : \E value \in ValuesOf(key) : MoveInsert(dest_, key, value)
    \/ \E key \in Keys : \E value \in MoveValuesOf(key) : MoveInsert(src_, key, value)
    \/ \E dest_slot \in 0..NumKeys : \E src_slot \in 0..NumKeys : \E count \in 1..NumKeys :
           MoveRecords(dest_slot, src_slot, count)

SpecMove == InitNode /\ [][NextMove]_vars

-----------------------------------------------------------------------------
(* Poor man's normalized keys of strings and of scalars: encoding.h *)

\* sizeof(uint32_t), sizeof(int32_t): a scalar key, held as the bytes of its object
\* representation, least significant byte first
ScalarKeyBytes == 4
\* sizeof(uint16_t), the PMNK_Type
PmnkBytes == 2

\* the byte values the keys of this specification are made of
PmnkByteValues == {0, 1, 128, 255}

\* strings of up to PmnkBytes + 1 bytes
PmnkStrings == UNION { [1..n -> PmnkByteValues] : n \in 0..(PmnkBytes + 1) }

\* scalars whose second and third byte are equal
PmnkScalars ==
    { <<b[1], b[2], b[2], b[3]>> : b \in [1..(ScalarKeyBytes - 1) -> PmnkByteValues] }

\* swap_endianness: the bytes in reverse order
swap_endianness(bytes) == [i \in 1..Len(bytes) |-> bytes[Len(bytes) - i + 1]]

\* the number an unsigned scalar of these bytes is
RECURSIVE unsigned_value(_)
unsigned_value(bytes) ==
    IF Len(bytes) = 0 THEN 0 ELSE bytes[1] + 256 * unsigned_value(Tail(bytes))

\* PoormanPrefixing<K, uint16_t> for a scalar K: the key is swapped, the first
\* sizeof(PMNK_Type) bytes of the union are the prefix, and the prefix is swapped
scalar_pmnk(key) ==
    unsigned_value(swap_endianness(SubSeq(swap_endianness(key), 1, PmnkBytes)))

\* operator< of two unsigned scalars: the most significant byte that differs decides
unsigned_less(a, b) == KeyLess(swap_endianness(a), swap_endianness(b))

\* operator< of two signed scalars (two's complement): as unsigned scalars with the
\* sign bit inverted
flip_sign(key) == [key EXCEPT ![Len(key)] = (@ + 128) % 256]
signed_less(a, b) == unsigned_less(flip_sign(a), flip_sign(b))

\* what is kept of a comparison: the keys, their PMNKs and whether a < b
compared(type, a, b, pmnk_a, pmnk_b, less) ==
    [op |-> "pmnk", key |-> << >>, res |-> type, out |-> NoValue,
     a |-> a, b |-> b, pmnk_a |-> pmnk_a, pmnk_b |-> pmnk_b, less |-> less]

\* PMNKEncoder<string, uint16_t>::get_pmnk of two strings, once in a behaviour
PmnkOfStrings(a, b) ==
    /\ last.op # "pmnk"
    /\ last' = compared("string", a, b, get_pmnk(a), get_pmnk(b), KeyLess(a, b))
    /\ UNCHANGED <<nodes, nnodes, stored, th, held, mutex>>

\* PMNKEncoder<uint32_t, uint16_t>::get_pmnk of two unsigned keys
PmnkOfUnsigned(a, b) ==
    /\ last.op # "pmnk"
    /\ last' = compared("unsigned", a, b, scalar_pmnk(a), scalar_pmnk(b),
                        unsigned_less(a, b))
    /\ UNCHANGED <<nodes, nnodes, stored, th, held, mutex>>

\* PMNKEncoder<int32_t, uint16_t>::get_pmnk of two signed keys
PmnkOfSigned(a, b) ==
    /\ last.op # "pmnk"
    /\ last' = compared("signed", a, b, scalar_pmnk(a), scalar_pmnk(b), signed_less(a, b))
    /\ UNCHANGED <<nodes, nnodes, stored, th, held, mutex>>

NextPmnk ==
    \/ \E a \in PmnkStrings : \E b \in PmnkStrings : PmnkOfStrings(a, b)
    \/ \E a \in PmnkScalars : \E b \in PmnkScalars : PmnkOfUnsigned(a, b)
    \/ \E a \in PmnkScalars : \E b \in PmnkScalars : PmnkOfSigned(a, b)

SpecPmnk == InitNode /\ [][NextPmnk]_vars

-----------------------------------------------------------------------------
(* One slot array called as test_slotarray.cpp calls it: slot_array.h *)

\* the lengths in bytes of the payloads allocated: one block, and two
SlotLengths == {1, Alignment, Alignment + 1}

\* Between calls.  pending: pointer and length of a payload that is allocated and has
\* no slot yet; freed: the slot whose payload is freed and which is not deleted yet;
\* end_blocks: the number of blocks allocated behind the payloads of the slots
SlotsIdle(op, res, pending, freed, end_blocks) ==
    [op |-> op, key |-> << >>, res |-> res, out |-> NoValue,
     pending |-> pending, freed |-> freed, end_blocks |-> end_blocks]

InitSlots ==
    /\ nodes = [n \in Nodes |-> EmptyPage]
    /\ nnodes = 1
    /\ last = SlotsIdle("none", "none", << >>, -1, 0)
    /\ stored = [k \in Keys \cup ConcKeys |-> NoValue]
    /\ th = [t \in Threads |-> IdleThread]
    /\ held = [t \in Threads |-> [n \in Nodes |-> ""]]
    /\ mutex = [n \in Nodes |-> 0]

\* nothing is half done: every payload has its slot and every slot its payload
SlotsSettled == last.pending = << >> /\ last.freed = -1

\* SlotArray::allocate_payload(ptr, length), and the memcpy of length bytes to ptr
AllocatePayload(length) ==
    /\ SlotsSettled
    /\ \E a \in {allocate_payload(nodes[node_], length)} :
        /\ nodes' = [nodes EXCEPT ![node_] =
               IF a.ok THEN write_payload(a.page, a.ptr, [i \in 1..length |-> 0]) ELSE a.page]
        /\ last' = SlotsIdle("allocate_payload", IF a.ok THEN "true" ELSE "false",
                             IF a.ok THEN <<a.ptr, length>> ELSE << >>, -1, last.end_blocks)
    /\ UNCHANGED <<nnodes, stored, th, held, mutex>>

\* SlotArray::insert_slot(slot) for the payload allocated before, and the assignment
\* of the slot's pointer
InsertSlot(slot) ==
    /\ last.pending # << >>
    /\ slot <= slot_count(nodes[node_])
    /\ \E s \in {insert_slot(nodes[node_], slot,
                             [key |-> 0, ptr |-> last.pending[1], ghost |-> FALSE])} :
        /\ nodes' = [nodes EXCEPT ![node_] = s.page]
        /\ last' = SlotsIdle("insert_slot", IF s.ok THEN "true" ELSE "false",
                             IF s.ok THEN << >> ELSE last.pending, -1, last.end_blocks)
    /\ UNCHANGED <<nnodes, stored, th, held, mutex>>

\* SlotArray::free_payload(ptr, length) of the payload that got no slot
FreePending ==
    /\ last.pending # << >>
    /\ nodes' = [nodes EXCEPT ![node_] = free_payload(@, last.pending[1], last.pending[2])]
    /\ last' = SlotsIdle("free_payload", "true", << >>, -1, last.end_blocks)
    /\ UNCHANGED <<nnodes, stored, th, held, mutex>>

\* SlotArray::free_payload(slots[slot].ptr, length) of the payload of a slot
FreePayload(slot) ==
    /\ SlotsSettled
    /\ slot < slot_count(nodes[node_])
    /\ nodes' = [nodes EXCEPT ![node_] =
           free_payload(@, get_slot(@, slot).ptr, Len(get_payload_for_slot(@, slot)))]
    /\ last' = SlotsIdle("free_payload", "true", << >>, slot, last.end_blocks)
    /\ UNCHANGED <<nnodes, stored, th, held, mutex>>

\* SlotArray::delete_slot(slot) of the slot whose payload is freed
DeleteSlot ==
    /\ last.freed # -1
    /\ nodes' = [nodes EXCEPT ![node_] = delete_slot(@, last.freed)]
    /\ last' = SlotsIdle("delete_slot", "true", << >>, -1, last.end_blocks)
    /\ UNCHANGED <<nnodes, stored, th, held, mutex>>

\* SlotArray::allocate_end_payload(ptr, length): a payload behind all others, which no
\* slot points to
AllocateEndPayload(length) ==
    /\ SlotsSettled
    /\ \E a \in {allocate_end_payload(nodes[node_], length)} :
        /\ nodes' = [nodes EXCEPT ![node_] =
               IF a.ok THEN write_payload(a.page, a.ptr, [i \in 1..length |-> 0]) ELSE a.page]
        /\ last' = SlotsIdle("allocate_end_payload", IF a.ok THEN "true" ELSE "false", << >>, -1,
                             last.end_blocks + (IF a.ok THEN get_payload_count(length) ELSE 0))
    /\ UNCHANGED <<nnodes, stored, th, held, mutex>>

\* SlotArray::shift_payloads(first + diff, first, ptr - first), which resizes the
\* payload at ptr, behind the payloads of the slots, by -diff blocks
ShiftPayloads(diff) ==
    /\ SlotsSettled
    /\ last.end_blocks > 0
    /\ diff <= last.end_blocks
    /\ \E s \in {shift_payloads(nodes[node_], nodes[node_].payload_begin + diff,
                     nodes[node_].payload_begin,
                     get_payload_end(nodes[node_]) - last.end_blocks
                         - nodes[node_].payload_begin)} :
        /\ nodes' = [nodes EXCEPT ![node_] = s.page]
        /\ last' = SlotsIdle("shift_payloads", IF s.ok THEN "true" ELSE "false", << >>, -1,
                             last.end_blocks - (IF s.ok THEN diff ELSE 0))
    /\ UNCHANGED <<nnodes, stored, th, held, mutex>>

\* the numbers of blocks a payload behind the payloads of the slots shrinks by
ShiftDiffs == {-2, -1, 1, 2}

NextSlots ==
    \/ \E length \in SlotLengths : AllocatePayload(length)
    \/ \E slot \in 0..(2 * PayloadCount) : InsertSlot(slot)
    \/ FreePending
    \/ \E slot \in 0..(2 * PayloadCount) : FreePayload(slot)
    \/ DeleteSlot
    \/ \E length \in SlotLengths : AllocateEndPayload(length)
    \/ \E diff \in ShiftDiffs : ShiftPayloads(diff)

SpecSlots == InitSlots /\ [][NextSlots]_vars

-----------------------------------------------------------------------------
(* GenericBtree::get through a branch root, one latch call at a time: btree.h,
   node_foster.h, adoption.h *)

\* the thread that runs the get
getter_ == 1

\* Where the get is.  key: its key; branch: the branch of the running traverse; parent:
\* the branch of descend_to_child, which try_adopt takes by reference; child: the child
\* of descend_to_child and of traverse; next: the node whose latch was asked for last (root, child, foster, new_node);
\* upgraded: child_latch_upgraded of try_adopt
GetThread(pc, key, branch, parent, child, next, upgraded) ==
    [pc |-> pc, key |-> key, branch |-> branch, parent |-> parent, child |-> child,
     next |-> next, upgraded |-> upgraded]

\* the thread is at pc with everything else as it was
get_at(pc) == [th EXCEPT ![getter_].pc = pc]

\* a traversal without latch coupling: the latch of the node that is left is given
\* back when the latch of the next node is asked for
hold_one(h, n, mode) ==
    [h EXCEPT ![getter_] = [m \in Nodes |-> IF m = n THEN mode ELSE ""]]

\* the latches the get has taken and not given back (held starts empty with every get),
\* after it took or gave back that of node n
hold(h, n, mode) == [h EXCEPT ![getter_][n] = mode]

\* GenericBtree::put by another thread, before the get or between two of its steps; a
\* put that has to wait for a latch has not begun
OtherPut(key, value) ==
    /\ BranchPut(key, value, TRUE)
    /\ last'.res # "blocked"

\* grow before the get
GrowBeforeGet ==
    /\ th[getter_].pc = "idle"
    /\ Grow

\* GenericBtree::get calls traverse(root_, key, false, adoption): latch_pointer(root)
GetStart(key) ==
    /\ CanCall
    /\ th[getter_].pc = "idle"
    /\ nodes[root_].level > 0
    /\ \E l \in {seq_latch_pointer(nodes[root_], FALSE)} :
        /\ nodes' = [nodes EXCEPT ![root_] = l.page]
        /\ held' = IF l.ok THEN hold(held, root_, "r") ELSE held
        /\ th' = [th EXCEPT ![getter_] =
               GetThread(IF l.ok THEN "descend" ELSE "blocked", key, root_, root_,
                         NullNode, root_, FALSE)]
    /\ UNCHANGED <<nnodes, last, stored, mutex>>
    /\ counters_bounded(nodes')

\* descend_to_child, the key is not in the range of the branch: latch_pointer(foster)
DescendHop ==
    /\ th[getter_].pc = "descend"
    /\ ~key_range_contains(nodes[th[getter_].parent], th[getter_].key)
    /\ \E foster \in {foster_field_value(nodes[th[getter_].parent], FosterPtr)} :
        IF foster = NullNode
        THEN /\ th' = get_at("null")
             /\ UNCHANGED <<nodes, held>>
        ELSE \E l \in {seq_latch_pointer(nodes[foster], FALSE)} :
             /\ nodes' = [nodes EXCEPT ![foster] = l.page]
             /\ held' = IF l.ok THEN hold(held, foster, "r") ELSE held
             /\ th' = [th EXCEPT ![getter_].pc = IF l.ok THEN "hop" ELSE "blocked",
                                 ![getter_].next = foster]
    /\ UNCHANGED <<nnodes, last, stored, mutex>>
    /\ counters_bounded(nodes')

\* descend_to_child: unlatch_pointer(branch); branch = foster
DescendUnlatch ==
    /\ th[getter_].pc = "hop"
    /\ nodes' = [nodes EXCEPT ![th[getter_].parent] = unlatch_pointer(@, FALSE)]
    /\ held' = hold(held, th[getter_].parent, "")
    /\ th' = [th EXCEPT ![getter_].pc = "descend", ![getter_].parent = th[getter_].next]
    /\ UNCHANGED <<nnodes, last, stored, mutex>>
    /\ counters_bounded(nodes')

\* descend_to_child, the key is in the range of the branch: BaseNode::find(branch, key,
\* child) and latch_pointer(child)
DescendChild ==
    /\ th[getter_].pc = "descend"
    /\ key_range_contains(nodes[th[getter_].parent], th[getter_].key)
    /\ \E child \in {value_ptr(find(nodes[th[getter_].parent], th[getter_].key).value)} :
        IF child \notin 1..nnodes
        THEN /\ th' = get_at("null")
             /\ UNCHANGED <<nodes, held>>
        ELSE \E l \in {seq_latch_pointer(nodes[child], FALSE)} :
             /\ nodes' = [nodes EXCEPT ![child] = l.page]
             /\ held' = IF l.ok THEN hold(held, child, "r") ELSE held
             /\ th' = [th EXCEPT ![getter_].pc = IF l.ok THEN "try_adopt" ELSE "blocked",
                                 ![getter_].child = child, ![getter_].next = child]
    /\ UNCHANGED <<nnodes, last, stored, mutex>>
    /\ counters_bounded(nodes')

\* EagerAdoption::try_adopt(branch, child) up to do_adopt: the upgrades of the two
\* latches.  A try_adopt that returns false is run to its end.
TryAdopt(cas_parent, cas_child) ==
    /\ th[getter_].pc = "try_adopt"
    /\ \E r \in {IF ~get_foster_child(nodes[th[getter_].child]).ok
                 THEN try_adopt(nodes, nnodes, th[getter_].parent, th[getter_].child,
                                cas_parent)
                 ELSE try_adopt_parent(nodes, nnodes, th[getter_].parent,
                          th[getter_].child, cas_child,
                          seq_attempt_upgrade(nodes[th[getter_].parent], cas_parent))} :
        IF r.res = "no"
        THEN /\ nodes' = r.nodes
             /\ th' = get_at("release_branch")
             /\ UNCHANGED held
        ELSE /\ nodes' = [nodes EXCEPT
                    ![th[getter_].parent] =
                        seq_attempt_upgrade(@, cas_parent).page,
                    ![th[getter_].child] =
                        IF has_reader(@.counter) THEN seq_attempt_upgrade(@, cas_child).page
                        ELSE @]
             /\ held' = hold(hold(held, th[getter_].parent, "w"), th[getter_].child,
                             IF has_reader(nodes[th[getter_].child].counter) THEN "w"
                             ELSE held[getter_][th[getter_].child])
             /\ th' = [th EXCEPT ![getter_].pc = "do_adopt",
                                 ![getter_].upgraded =
                                     has_reader(nodes[th[getter_].child].counter)]
    /\ UNCHANGED <<nnodes, last, stored, mutex>>

\* the child after an adoption: Node::unset_foster_child(child) of do_adopt,
\* child->downgrade() of try_adopt and unlatch_pointer(child) of descend_to_child
adopted_child(p, upgraded) ==
    unlatch_pointer(IF upgraded THEN downgrade(unset_foster_child(p))
                    ELSE unset_foster_child(p), FALSE)

\* EagerAdoption::do_adopt: Node::insert(parent, foster_key, foster) and, if it fails,
\* construct_node, Node::split(parent, new_node) and new_node->acquire_write(); if it
\* succeeds, the end of do_adopt and of try_adopt and the unlatch_pointer(child) of
\* descend_to_child, which goes round its loop again
DoAdoptInsert ==
    /\ th[getter_].pc = "do_adopt"
    /\ \E parent \in {th[getter_].parent} : \E child \in {th[getter_].child} :
       \E foster_key \in {foster_field_value(nodes[child], FosterKey)} :
       \E i \in {insert(nodes[parent], foster_key,
                        ptr_value(foster_field_value(nodes[child], FosterPtr)))} :
        IF i.res = "ExistentKey"
        THEN /\ th' = get_at("thrown")
             /\ UNCHANGED <<nodes, nnodes, held>>
        ELSE IF i.res = "inserted"
        THEN /\ nodes' = [nodes EXCEPT
                    ![parent] = downgrade(i.page),
                    ![child] = adopted_child(@, th[getter_].upgraded)]
             /\ held' = hold(hold(held, parent, "r"), child, "")
             /\ th' = [th EXCEPT ![getter_].pc = "descend", ![getter_].child = NullNode,
                                 ![getter_].upgraded = FALSE]
             /\ UNCHANGED nnodes
        ELSE /\ nnodes < MaxNodes
             /\ nnodes' = nnodes + 1
             /\ \E s \in {split([nodes EXCEPT ![parent] = i.page], parent, nnodes + 1)} :
                 IF ~s.ok
                 THEN /\ nodes' = s.nodes
                      /\ th' = get_at("thrown")
                      /\ UNCHANGED held
                 ELSE IF key_range_contains(s.nodes[parent], foster_key)
                 THEN /\ nodes' = s.nodes
                      /\ UNCHANGED <<th, held>>
                 ELSE \E l \in {seq_acquire_write(s.nodes[nnodes + 1])} :
                      /\ nodes' = [s.nodes EXCEPT ![nnodes + 1] = l.page]
                      /\ held' = IF l.ok THEN hold(held, nnodes + 1, "w") ELSE held
                      /\ th' = [th EXCEPT
                             ![getter_].pc = IF l.ok THEN "moved" ELSE "blocked",
                             ![getter_].next = nnodes + 1]
    /\ UNCHANGED <<last, stored, mutex>>

\* EagerAdoption::do_adopt: parent->release_write(); parent = new_node
DoAdoptMoved ==
    /\ th[getter_].pc = "moved"
    /\ nodes' = [nodes EXCEPT ![th[getter_].parent] = release_write(@)]
    /\ held' = hold(held, th[getter_].parent, "")
    /\ th' = [th EXCEPT ![getter_].pc = "do_adopt", ![getter_].parent = th[getter_].next]
    /\ UNCHANGED <<nnodes, last, stored, mutex>>

\* FosterNode::traverse after descend_to_child: unlatch_pointer(branch, for_update)
ReleaseBranch ==
    /\ th[getter_].pc = "release_branch"
    /\ nodes' = [nodes EXCEPT ![th[getter_].branch] = unlatch_pointer(@, FALSE)]
    /\ held' = hold(held, th[getter_].branch, "")
    /\ th' = get_at("chain")
    /\ UNCHANGED <<nnodes, last, stored, mutex>>
    /\ counters_bounded(nodes')

\* FosterNode::traverse, the loop along the foster chain of child and what follows it:
\* latch_pointer(foster), or the return of a node of level 0, or traverse(child, ...,
\* depth + 1)
ChainLatch ==
    /\ th[getter_].pc = "chain"
    /\ \E child \in {th[getter_].child} :
        IF key_range_contains(nodes[child], th[getter_].key)
        THEN /\ th' = IF nodes[child].level = 0 THEN get_at("leaf")
                      ELSE [th EXCEPT ![getter_].pc = "descend",
                                      ![getter_].branch = child,
                                      ![getter_].parent = child,
                                      ![getter_].child = NullNode]
             /\ UNCHANGED <<nodes, held>>
        ELSE IF ~get_foster_child(nodes[child]).ok
        THEN /\ th' = get_at("null")
             /\ UNCHANGED <<nodes, held>>
        ELSE \E foster \in {foster_field_value(nodes[child], FosterPtr)} :
             \E l \in {seq_latch_pointer(nodes[foster], FALSE)} :
             /\ nodes' = [nodes EXCEPT ![foster] = l.page]
             /\ held' = IF l.ok THEN hold(held, foster, "r") ELSE held
             /\ th' = [th EXCEPT ![getter_].pc = IF l.ok THEN "chain_hop" ELSE "blocked",
                                 ![getter_].next = foster]
    /\ UNCHANGED <<nnodes, last, stored, mutex>>
    /\ counters_bounded(nodes')

\* FosterNode::traverse: unlatch_pointer(child, for_update); child = foster
ChainUnlatch ==
    /\ th[getter_].pc = "chain_hop"
    /\ nodes' = [nodes EXCEPT ![th[getter_].child] = unlatch_pointer(@, FALSE)]
    /\ held' = hold(held, th[getter_].child, "")
    /\ th' = [th EXCEPT ![getter_].pc = "chain", ![getter_].child = th[getter_].next]
    /\ UNCHANGED <<nnodes, last, stored, mutex>>
    /\ counters_bounded(nodes')

\* GenericBtree::get after traverse: LeafNode::find(leaf, key, value),
\* unlatch_pointer(leaf, false) and the return
GetReturn ==
    /\ th[getter_].pc = "leaf"
    /\ \E f \in {find(nodes[th[getter_].child], th[getter_].key)} :
        /\ nodes' = [nodes EXCEPT ![th[getter_].child] = unlatch_pointer(@, FALSE)]
        /\ held' = [held EXCEPT ![getter_] = [n \in Nodes |-> ""]]
        /\ th' = [th EXCEPT ![getter_] = IdleThread]
        /\ last' = [op |-> "get", key |-> << >>,
                    res |-> IF f.found THEN "found" ELSE "absent", out |-> NoValue]
    /\ UNCHANGED <<nnodes, stored, mutex>>
    /\ counters_bounded(nodes')

NextGet ==
    \/ \E key \in Keys : \E value \in BranchValuesOf(key) : OtherPut(key, value)
    \/ GrowBeforeGet
    \/ \E key \in Keys : GetStart(key)
    \/ DescendHop
    \/ DescendUnlatch
    \/ DescendChild
    \/ \E cas_parent \in BOOLEAN : \E cas_child \in BOOLEAN : TryAdopt(cas_parent, cas_child)
    \/ DoAdoptInsert
    \/ DoAdoptMoved
    \/ ReleaseBranch
    \/ ChainLatch
    \/ ChainUnlatch
    \/ GetReturn

SpecGet == InitBranch /\ [][NextGet]_vars

-----------------------------------------------------------------------------
(* One page whose foster fields are set, resized and unset between inserts and removes
   of records: node_foster.h *)

\* the number of calls made on the page
MaxFieldCalls == 4

\* a key whose encoding as a field takes two payload blocks
LongKey == <<1, 1, 1, 1, 1, 1, 1>>

\* the keys written to the key fields: none, a short one, one of two blocks
FieldKeys == {<< >>, <<2>>, LongKey}

\* the node pointers written to the foster pointer
FieldPointers == {NullNode, 2}

\* the fields that hold keys
KeyFields == {LowKey, HighKey, FosterKey}

\* the keys of the records, with PMNKs that differ
RecordKeys == {<<1, 1, 2>>, <<2>>}

\* a field as its last writer left it
Written(valid, value) == [valid |-> valid, value |-> value]

\* the value a field reads as when it is not valid
NoField(field) == IF field = FosterPtr THEN NullNode ELSE << >>

\* Between calls.  written: for every field the value of the last successful set, not
\* valid if the field was never set or was unset after it; calls: the calls made
FieldsIdle(op, res, written, calls) ==
    [op |-> op, key |-> << >>, res |-> res, out |-> NoValue, written |-> written,
     calls |-> calls]

\* a page as the node manager hands it out, or as FosterNode::initialize leaves the root
InitFields ==
    /\ \E root \in BOOLEAN :
        /\ nodes = [n \in Nodes |-> IF root /\ n = node_ THEN initialize(EmptyPage, 0)
                                    ELSE EmptyPage]
        /\ last = FieldsIdle("none", "none",
                      [f \in Fields |-> Written(root /\ f = FosterPtr, NoField(f))], 0)
    /\ nnodes = 1
    /\ stored = [k \in Keys \cup ConcKeys |-> NoValue]
    /\ th = [t \in Threads |-> IdleThread]
    /\ held = [t \in Threads |-> [n \in Nodes |-> ""]]
    /\ mutex = [n \in Nodes |-> 0]

\* FosterNode::set_low_key, set_high_key, set_foster_key, set_foster_child
FieldSet(field, value) ==
    /\ last.calls < MaxFieldCalls
    /\ \E r \in {set_foster_field(nodes[node_], field, value)} :
        /\ nodes' = [nodes EXCEPT ![node_] = r.page]
        /\ last' = FieldsIdle("set", IF r.ok THEN "true" ELSE "false",
                       IF r.ok THEN [last.written EXCEPT ![field] = Written(TRUE, value)]
                       ELSE last.written, last.calls + 1)
    /\ UNCHANGED <<nnodes, stored, th, held, mutex>>

\* FosterNode::unset_low_key, unset_high_key, unset_foster_key, unset_foster_child
FieldUnset(field) ==
    /\ last.calls < MaxFieldCalls
    /\ is_valid_foster_field(nodes[node_], field)
    /\ nodes' = [nodes EXCEPT ![node_] = unset_foster_field(@, field)]
    /\ last' = FieldsIdle("unset", "done",
                   [last.written EXCEPT ![field] = Written(FALSE, NoField(field))],
                   last.calls + 1)
    /\ UNCHANGED <<nnodes, stored, th, held, mutex>>

\* Node::insert of a key the page does not hold
FieldsInsert(key, value) ==
    /\ last.calls < MaxFieldCalls
    /\ stored[key] = NoValue
    /\ \E r \in {insert(nodes[node_], key, value)} :
        /\ nodes' = [nodes EXCEPT ![node_] = r.page]
        /\ last' = [FieldsIdle("insert", r.res, last.written, last.calls + 1)
                        EXCEPT !.key = key, !.out = value]
        /\ stored' = IF r.res = "inserted" THEN [stored EXCEPT ![key] = value] ELSE stored
    /\ UNCHANGED <<nnodes, th, held, mutex>>

\* Node::remove of a key the page holds
FieldsRemove(key) ==
    /\ last.calls < MaxFieldCalls
    /\ stored[key] # NoValue
    /\ \E r \in {remove(nodes[node_], key, TRUE)} :
        /\ nodes' = [nodes EXCEPT ![node_] = r.page]
        /\ last' = FieldsIdle("remove", r.res, last.written, last.calls + 1)
        /\ stored' = IF r.res = "removed" THEN [stored EXCEPT ![key] = NoValue] ELSE stored
    /\ UNCHANGED <<nnodes, th, held, mutex>>

NextFields ==
    \/ \E field \in KeyFields : \E value \in FieldKeys : FieldSet(field, value)
    \/ \E value \in FieldPointers : FieldSet(FosterPtr, value)
    \/ \E field \in Fields \ {Prefix} : FieldUnset(field)
    \/ \E key \in RecordKeys : \E value \in ValuesOf(key) : FieldsInsert(key, value)
    \/ \E key \in RecordKeys : FieldsRemove(key)

SpecFields == InitFields /\ [][NextFields]_vars

-----------------------------------------------------------------------------
(* A branch node and the lookups of descend_to_child: node_refactored.h, search.h *)

\* the payload blocks of a page that holds four separators
SeparatorPayloadCount == 12

\* the keys looked up: every key, stored or not
LookupKeys == { AllKeys[i] : i \in 1..Len(AllKeys) }

\* the child a separator is inserted with
SeparatorChild(key) == KeyIndex(key) + 2

\* a branch node of level 1 whose one record is (minimum key, child 2)
InitSeparators ==
    /\ nodes = [n \in Nodes |->
           IF n = node_
           THEN insert(initialize(EmptyPageOf(SeparatorPayloadCount), 1),
                       GetMinimumKeyValue, ptr_value(2)).page
           ELSE EmptyPage]
    /\ nnodes = 1
    /\ last = NoOp
    /\ stored = [k \in Keys \cup ConcKeys |-> NoValue]
    /\ th = [t \in Threads |-> IdleThread]
    /\ held = [t \in Threads |-> [n \in Nodes |-> ""]]
    /\ mutex = [n \in Nodes |-> 0]

\* Node::insert(parent, foster_key, foster) of a separator the node does not hold
SeparatorInsert(key) ==
    /\ stored[key] = NoValue
    /\ \E r \in {insert(nodes[node_], key, ptr_value(SeparatorChild(key)))} :
        /\ nodes' = [nodes EXCEPT ![node_] = r.page]
        /\ last' = [op |-> "insert", key |-> key, res |-> r.res, out |-> NoValue]
        /\ stored' = IF r.res = "inserted"
                     THEN [stored EXCEPT ![key] = ptr_value(SeparatorChild(key))]
                     ELSE stored
    /\ UNCHANGED <<nnodes, th, held, mutex>>

\* BaseNode::find(branch, key, child) of descend_to_child
SeparatorFind(key) ==
    /\ \E f \in {find(nodes[node_], key)} :
        last' = [op |-> "find", key |-> key,
                 res |-> IF f.found THEN "found" ELSE "absent", out |-> f.value]
    /\ UNCHANGED <<nodes, nnodes, stored, th, held, mutex>>

NextSeparators ==
    \/ \E key \in Keys : SeparatorInsert(key)
    \/ \E key \in LookupKeys : SeparatorFind(key)

SpecSeparators == InitSeparators /\ [][NextSeparators]_vars
-----------------------------------------------------------------------------
(* Claims *)

\* what get said, g, is what the puts made of the key
get_matches_stored(key, g) ==
    IF stored[key] # NoValue THEN g.res = "found" /\ g.value = stored[key]
    ELSE g.res = "absent"

\* C1: after puts (upsert = false) of distinct keys into an empty tree, in any order,
\* keys sharing a PMNK and leaf splits included, get(k) returns the value put for
\* every key put and absence for every other key.
C1_GetReturnsWhatWasPut ==
    \A key \in Keys : get_matches_stored(key, get(nodes, key))

\* the slots of a page are strictly increasing in full-key order and their PMNKs
\* never decrease
slots_strictly_sorted(p) ==
    \A i \in 1..(slot_count(p) - 1) :
        /\ KeyLess(read_slot(p, i - 1).key, read_slot(p, i).key)
        /\ get_slot(p, i - 1).key <= get_slot(p, i).key

\* C6: after any sequence of puts and removes, keys sharing a PMNK included, the
\* slots of every node of the tree are strictly increasing in full-key order and
\* their PMNKs are non-decreasing.
C6_SlotsSorted ==
    \A n \in 1..nnodes : slots_strictly_sorted(nodes[n])

\* what find said, f, is what the inserts and removes made of the key
find_matches_stored(key, f) ==
    IF stored[key] # NoValue THEN f.found /\ f.value = stored[key] ELSE ~f.found

\* C7: in a single sorted node, after any sequence of inserts and removes of distinct
\* keys, any number of them sharing one PMNK, find(n, k) is true with the stored
\* value for the keys in the node and false for the others.
C7_FindInNode ==
    \A key \in Keys : find_matches_stored(key, find(nodes[node_], key))

\* what two gets said is the same
same_get(g1, g2) == g1.res = g2.res /\ (g1.res = "found" => g1.value = g2.value)

\* remove(key) said r: true, and in the tree it leaves get(key) is absent and the
\* get of every other key is as before
removed_only(key, r) ==
    /\ r.res = "true"
    /\ get(r.nodes, key).res = "absent"
    /\ \A other \in Keys \ {key} : same_get(get(r.nodes, other), get(nodes, other))

\* C8: after any puts, remove(k) of a stored key returns true, a following get(k) is
\* absent, and get(k') is unchanged for every other key.
C8_RemoveStoredKey ==
    \A key \in Keys : stored[key] # NoValue => removed_only(key, tree_remove(nodes, key))

\* put(key, value, false) said r: it failed with the duplicate-key error, no node's
\* slot count or free space changed, and get(key) still returns the old value
rejected_unchanged(key, r) ==
    /\ r.res = "ExistentKey"
    /\ \A n \in Nodes : /\ slot_count(r.nodes[n]) = slot_count(nodes[n])
                        /\ free_space(r.nodes[n]) = free_space(nodes[n])
    /\ get_matches_stored(key, get(r.nodes, key))

\* C9: put(k, v, upsert = false) of a stored key fails with DuplicateKey and leaves
\* the tree unchanged: get(k) still returns the old value and no node's slot count or
\* free space changes.
C9_DuplicatePutRejected ==
    \A key \in Keys : stored[key] # NoValue =>
        \A value \in ValuesOf(key) :
            rejected_unchanged(key, put(nodes, nnodes, key, value, FALSE))

\* remove(key) said r: false, through the result, and no node changed
absent_unchanged(r) == r.res = "false" /\ r.nodes = nodes

\* C10: remove(k) of a key that is not stored returns false through the result type
\* and changes no node.
C10_RemoveAbsentKey ==
    \A key \in Keys : stored[key] = NoValue => absent_unchanged(tree_remove(nodes, key))

\* C5 (sequential part): every call of put, get or remove that starts returns: no
\* call waits forever for a latch, also after calls that ended in a user error.
C5_EveryCallReturns == last.res # "blocked"

\* C3: on one latch, in every interleaving of acquire_read, attempt_read,
\* acquire_write, attempt_write, attempt_upgrade, downgrade and the releases, at most
\* one thread holds the latch in write mode, and no thread holds it in read mode
\* while another thread holds it in write mode.
C3_WriterExcludesOthers ==
    \A t1 \in Threads : \A t2 \in Threads \ {t1} :
        held[t1][latch_] = "w" => held[t2][latch_] = ""

\* every thread has made all its calls
AllDone == \A t \in Threads : th[t].pc = "idle" /\ th[t].done = MaxOps

\* the tree with every latch free, as a thread finds it once no call is running
unlatched(ns) == [n \in Nodes |-> [ns[n] EXCEPT !.counter = 0]]

\* C2: when threads that make no user error have finished their puts and removes of
\* keys of their own, the tree holds exactly the keys put and not removed since, each
\* with the value last put.
C2_FinalTreeHoldsSurvivingKeys ==
    AllDone => \A key \in ConcKeys : get_matches_stored(key, get(unlatched(nodes), key))

\* the thread's last call was a get that returned
returned_get(t) == th[t].pc = "idle" /\ th[t].op = "get" /\ th[t].res \in {"found", "absent"}

\* C4: a get of a key whose put returned before the get began, and which no thread
\* has put or removed since, returns true with the value of that put.
C4_GetSeesCompletedPut ==
    \A t \in Threads :
        returned_get(t) /\ stored[th[t].key] # NoValue
            => th[t].res = "found" /\ th[t].out = stored[th[t].key]

\* the records of the tree that hold the key
records_of(key) ==
    { <<n, s>> \in Nodes \X (0..(PayloadCount * 2)) :
        n <= nnodes /\ s < slot_count(nodes[n]) /\ read_slot(nodes[n], s).key = key }

\* the keys the callers have stored
stored_keys == { key \in Keys : stored[key] # NoValue }

\* the number of records in the tree
record_count == Cardinality(UNION { records_of(key) : key \in Keys })

\* C11: put(k, v2, upsert = true) returns normally and ends with get(k) = v2 and
\* exactly one record for k, whether k was stored (the number of stored keys is then
\* unchanged) or not (a plain insert), also when the leaf must be split.
C11_UpsertStoresOnce ==
    last.op = "upsert" =>
        /\ last.res = "ok"
        /\ get_matches_stored(last.key, get(nodes, last.key))
        /\ Cardinality(records_of(last.key)) = 1
        /\ record_count = Cardinality(stored_keys)

\* C12: get(k) is total: in every reachable state of the tree and for every key it
\* returns the stored value or absence; it never ends in an error and never fails to
\* return.
C12_GetIsTotal ==
    CanCall => \A key \in Keys : get(nodes, key).res \in {"found", "absent"}

\* C13: after every put and remove, splits included, every key stored in a node is
\* not below the node's low fence, below its foster key if it has one, and else not
\* above its high fence.
C13_KeysWithinFences ==
    \A n \in 1..nnodes : all_keys_in_range(nodes[n])

\* C17: once puts have overflowed and split the root, the tree has grown: the root,
\* still the same page, has level 1 and one record, whose key is the minimum key and
\* whose value points to its one child.
C17_RootGrowsOnSplit ==
    nnodes > 1 =>
        /\ nodes[root_].level = 1
        /\ slot_count(nodes[root_]) = 1
        /\ read_slot(nodes[root_], 0).key = << >>

\* the foster child of the node has the foster key of the node as its low fence, and
\* the high fence of the node
chain_consistent(n, c) ==
    /\ is_valid_foster_field(c, LowKey)
    /\ is_valid_foster_field(n, FosterKey)
    /\ foster_field_value(n, FosterKey) = foster_field_value(c, LowKey)
    /\ get_high_key(n) = get_high_key(c)
records(p) == { read_slot(p, s) : s \in 0..(slot_count(p) - 1) }
\* what split(n, c) has to make of a node n of m records, before (ns) and after (ns2)
split_halves(ns, ns2, n, c, m) ==
    /\ slot_count(ns2[n]) = m \div 2
    /\ slot_count(ns2[c]) = m - (m \div 2)
    /\ \A a \in records(ns2[n]) : \A b \in records(ns2[c]) : KeyLeq(a.key, b.key)
    /\ get_foster_key(ns2[n]) = [ok |-> TRUE, value |-> read_slot(ns[n], m \div 2).key]
    /\ get_low_key(ns2[c]) = get_foster_key(ns2[n])
    /\ records(ns2[n]) \cup records(ns2[c]) = records(ns[n])
\* C16: split(n, c) of a node n of m >= 2 records with an empty new node c leaves n
\* with floor(m/2) records and c with the other m - floor(m/2), no record of c smaller
\* than a record of n, the key formerly at slot floor(m/2) as foster key of n and low
\* fence of c, and no record lost or duplicated.
C16_SplitHalves ==
    [][nnodes' = nnodes + 1 =>
           split_halves(nodes, nodes', node_, nnodes', slot_count(nodes[node_]))]_vars

\* the node pointers held by the records of a page of branch level
children(p) == { value_ptr(read_slot(p, s).value) : s \in 0..(slot_count(p) - 1) }
\* the nodes of the foster chain that starts at node n
RECURSIVE chain_from(_, _, _)
chain_from(ns, n, fuel) ==
    IF n \notin DOMAIN ns \/ fuel = 0 THEN {}
    ELSE {n} \cup chain_from(ns, foster_field_value(ns[n], FosterPtr), fuel - 1)
\* the nodes d levels below the root: the foster chains of the children of the nodes
\* one level up, and the foster chain of the root for d = 0
RECURSIVE nodes_below(_, _)
nodes_below(ns, d) ==
    IF d = 0 THEN chain_from(ns, root_, MaxNodes)
    ELSE UNION { UNION { chain_from(ns, c, MaxNodes) : c \in children(ns[n]) } :
                 n \in nodes_below(ns, d - 1) }
\* the nodes that hold node pointers, and all nodes reached from the root
branch_nodes(ns) == UNION { nodes_below(ns, d) : d \in 0..(ns[root_].level - 1) }
reachable_nodes(ns) == UNION { nodes_below(ns, d) : d \in 0..ns[root_].level }

\* grow(root, new_child) has rewritten the root page before as the page after and has
\* made the page c of the node new_child
grown(before, after, new_child, c) ==
    /\ after.level = c.level + 1
    /\ slot_count(after) = 1
    /\ read_slot(after, 0) = [key |-> GetMinimumKeyValue, value |-> ptr_value(new_child)]
    /\ ~get_foster_child(after).ok
    /\ \A f \in {LowKey, HighKey, FosterKey} : ~is_valid_foster_field(after, f)
    /\ iterate(c) = iterate(before)
    /\ get_foster_child(c) = get_foster_child(before)
    /\ get_foster_key(c) = get_foster_key(before)
    /\ \A f \in {LowKey, HighKey} : ~is_valid_foster_field(c, f)
\* C18: grow(root, new_child) leaves the root the same page, one level above
\* new_child, with the one entry (minimum key -> new_child), without foster child,
\* foster key and fence keys; new_child holds the records, the foster pointer and the
\* foster key the root held, and has no fence keys.
C18_GrowRewritesRoot ==
    [][nodes'[root_].level # nodes[root_].level =>
           grown(nodes[root_], nodes'[root_], nnodes', nodes'[nnodes'])]_vars
\* a root with records and a foster child has grown
C18_GrownWithFosterChild ==
    /\ last.op = "grow"
    /\ slot_count(nodes[nnodes]) > 0
    /\ get_foster_child(nodes[nnodes]).ok

\* the entries (separator key, node pointer) of the branch nodes
entries(ns) == UNION { records(ns[p]) : p \in branch_nodes(ns) }
\* the nodes whose foster child is adopted between the pages ns and ns2: they lose
\* their foster child while the root keeps its level (a growing root moves its own)
adopted(ns, ns2) ==
    IF ns2[root_].level # ns[root_].level THEN {}
    ELSE { c \in DOMAIN ns : get_foster_child(ns[c]).ok /\ ~get_foster_child(ns2[c]).ok }
\* the entry the adoption of the foster child of c adds to its parent
adopted_entry(p) ==
    [key |-> foster_field_value(p, FosterKey),
     value |-> ptr_value(foster_field_value(p, FosterPtr))]
\* C15: after try_adopt(parent, child) succeeds on a child with foster key F and foster
\* child c, the parent level holds exactly one more entry, (F -> c), and the child has
\* no foster child, no foster key, and the high fence F.
C15_AdoptionMovesFosterChild ==
    [][\A c \in adopted(nodes, nodes') :
           /\ ~is_valid_foster_field(nodes'[c], FosterKey)
           /\ get_high_key(nodes'[c]) = [ok |-> TRUE, value |-> foster_field_value(nodes[c], FosterKey)]
           /\ entries(nodes') =
                  entries(nodes) \cup { adopted_entry(nodes[a]) : a \in adopted(nodes, nodes') }
           /\ Cardinality(entries(nodes')) =
                  Cardinality(entries(nodes)) + Cardinality(adopted(nodes, nodes'))]_vars

\* the record rec of a branch node points to a node whose low fence is the key of rec;
\* the minimum key stands for no low fence
separates(ns, rec) ==
    /\ value_ptr(rec.value) \in DOMAIN ns
    /\ get_low_key(ns[value_ptr(rec.value)]) =
           IF rec.key = GetMinimumKeyValue THEN [ok |-> FALSE, value |-> << >>]
           ELSE [ok |-> TRUE, value |-> rec.key]
\* the first key of the node, and of its first child and so on down to the leaves, is
\* the minimum key
RECURSIVE leftmost_is_minimum(_, _, _)
leftmost_is_minimum(ns, n, depth) ==
    \/ depth = 0
    \/ /\ n \in DOMAIN ns
       /\ slot_count(ns[n]) > 0
       /\ read_slot(ns[n], 0).key = GetMinimumKeyValue
       /\ leftmost_is_minimum(ns, value_ptr(read_slot(ns[n], 0).value), depth - 1)
\* C19: after every adoption, parent split and growth, each entry (k -> p) of a branch
\* node has low_fence(p) = k, and the first key of the leftmost branch node of each
\* level is the minimum key, whose child has no low fence.
C19_SeparatorsAreLowFences ==
    /\ \A p \in branch_nodes(nodes) : \A rec \in records(nodes[p]) : separates(nodes, rec)
    /\ leftmost_is_minimum(nodes, root_, nodes[root_].level)

\* the nodes the page points to: its foster child, and its children if it is a branch
pointers(ns, n) ==
    { foster_field_value(ns[n], FosterPtr) } \cup
    (IF n \in branch_nodes(ns) THEN children(ns[n]) ELSE {})
\* C20: after every operation there is one root, and every node that holds records is
\* reached from it by child and foster pointers.
C20_OneRootReachesAll ==
    /\ \A n \in 1..nnodes : slot_count(nodes[n]) > 0 => n \in reachable_nodes(nodes)
    /\ \A n \in reachable_nodes(nodes) : root_ \notin pointers(nodes, n)
\* both foster children of a chain are adopted, the parent has split, and every page
\* handed out is reached from the root
C20_AdoptedUnderSplitParent ==
    /\ Cardinality(branch_nodes(nodes)) >= 2
    /\ Cardinality(entries(nodes)) >= 3
    /\ reachable_nodes(nodes) = 1..nnodes

-----------------------------------------------------------------------------
(* Record movement, PMNK order and page layout *)

\* the records of page p without its slots first..(first+count-1)
records_without(p, first, count) ==
    SubSeq(iterate(p), 1, first) \o SubSeq(iterate(p), first + count + 1, slot_count(p))

\* the records of page p with the records recs put in front of its slot at
records_with(p, at, recs) ==
    SubSeq(iterate(p), 1, at) \o recs \o SubSeq(iterate(p), at + 1, slot_count(p))


\* C21: move_records either returns true with the count records of src now in dest
\* from dest_slot on, in their order, and gone from src, or returns false with dest
\* and src holding the records, the slot count and the free space they had before
C21_MoveIsAtomic ==
    [][last'.op = "move" =>
        \/ /\ last'.res = "true"
           /\ iterate(nodes'[dest_]) = records_with(nodes[dest_], last'.dest_slot,
                  SubSeq(iterate(nodes[src_]), last'.src_slot + 1,
                         last'.src_slot + last'.count))
           /\ iterate(nodes'[src_]) =
                  records_without(nodes[src_], last'.src_slot, last'.count)
        \/ /\ last'.res = "false"
           /\ \A n \in {dest_, src_} :
                /\ iterate(nodes'[n]) = iterate(nodes[n])
                /\ slot_count(nodes'[n]) = slot_count(nodes[n])
                /\ free_space(nodes'[n]) = free_space(nodes[n])]_vars

\* a move has failed after its copy loop had copied a record into a page that held one
C21_MoveRolledBack ==
    /\ last.op = "move" /\ last.res = "false" /\ last.out # <<0>>
    /\ slot_count(nodes[dest_]) > 0

\* C22: for two keys a and b of a supported key type (strings, also empty ones and
\* ones shorter than the PMNK; unsigned and signed scalars at least as wide as the
\* PMNK), pmnk(a) < pmnk(b) implies a < b.
C22_PmnkOrder ==
    last.op = "pmnk" => (last.pmnk_a < last.pmnk_b => last.less)

no_latch_held(ns) == \A n \in Nodes : ns[n].counter = 0

\* what holds when traverse(root, key, for_update, adoption) has returned t.node
traverse_post(t, key, for_update) ==
    /\ t.nodes[t.node].level = 0
    /\ key_range_contains(t.nodes[t.node], key)
    /\ t.nodes[t.node].counter = (IF for_update THEN WRITER_MASK ELSE READER_MASK)
    /\ \A n \in Nodes \ {t.node} : t.nodes[n].counter = 0

\* C24: whenever traverse(root, k, for_update, adoption), called by a thread that holds
\* no latch, returns node n, in every tree shape: n has level 0, the key range of n
\* contains k, the latch of n is held in write mode if for_update and in read mode
\* otherwise, and no latch is held on any other node.
C24_TraverseReturnsLatchedLeaf ==
    no_latch_held(nodes) =>
        \A key \in Keys : \A for_update \in BOOLEAN : \A cas \in BOOLEAN :
            traverse_adopting(nodes, nnodes, key, for_update, cas).res = "ok" =>
                traverse_post(traverse_adopting(nodes, nnodes, key, for_update, cas),
                              key, for_update)

\* the call has returned control to its caller, with a result or with one of the two
\* user errors
returned_to_caller(res) ==
    res \in {"ok", "true", "false", "found", "absent", "ExistentKey", "KeyNotFound"}

\* C25: when a put, get or remove has returned to its caller, with a normal result or
\* with a duplicate-key or key-not-found error, no latch is held on any node: between
\* operations every latch counter is 0.
C25_NoLatchAfterReturn ==
    returned_to_caller(last.res) => no_latch_held(nodes)

\* the counter has been decremented below zero: release_read has run on a latch that
\* had no reader, where its assertion has_reader() fails
released_unheld(c) == c >= CounterWrap \div 2

\* C26: in every execution of tree operations release_read is only called on a latch
\* that the thread holds in read mode, so its assertion has_reader() never fails and no
\* latch counter is ever decremented below zero: also after a traversal that moved to
\* a foster sibling of a branch node or whose adoption replaced the parent by its newly
\* split sibling.
C26_ReleaseOnlyHeld ==
    \A n \in Nodes : ~released_unheld(nodes[n].counter)

\* the nodes whose latch the get holds
latched_nodes == {n \in Nodes : held[getter_][n] # ""}

\* node m is the foster child of node n or a child that a record of n points to
below_or_right(n, m) ==
    \/ foster_field_value(nodes[n], FosterPtr) = m
    \/ \E i \in 1..slot_count(nodes[n]) : value_ptr(read_slot(nodes[n], i - 1).value) = m

\* C27: during every traversal the latch of the next node (the child when descending,
\* the foster sibling when moving sideways) is acquired before the latch of the node
\* that is left is released: from its first latch until it ends the get holds at least
\* one latch, in a hand-over it holds both nodes, and the node it has asked for is
\* below or to the right of a node it holds.
C27_LatchCoupling ==
    /\ th[getter_].pc \notin {"idle", "blocked"} => latched_nodes # {}
    /\ th[getter_].pc = "hop" =>
           /\ {th[getter_].parent, th[getter_].next} \subseteq latched_nodes
           /\ below_or_right(th[getter_].parent, th[getter_].next)
    /\ th[getter_].pc = "chain_hop" =>
           /\ {th[getter_].child, th[getter_].next} \subseteq latched_nodes
           /\ below_or_right(th[getter_].child, th[getter_].next)
    /\ th[getter_].pc = "try_adopt" =>
           /\ {th[getter_].parent, th[getter_].child} \subseteq latched_nodes
           /\ below_or_right(th[getter_].parent, th[getter_].child)
    /\ th[getter_].pc = "moved" =>
           /\ {th[getter_].parent, th[getter_].next} \subseteq latched_nodes
           /\ below_or_right(th[getter_].parent, th[getter_].next)

\* the get is handing over from a branch node to its foster sibling, or from a node to
\* its child, while another thread's put has changed the tree since the get began
C27_HandOver ==
    /\ th[getter_].pc \in {"hop", "try_adopt"}
    /\ last.op = "put"
    /\ Cardinality(latched_nodes) = 2

\* C29: at every instant a get holds at most two latches, also while its traversal
\* adopts a foster child and the insertion of the separator splits the parent.
C29_GetHoldsTwoLatches ==
    Cardinality(latched_nodes) <= 2

\* C30: a try_adopt that cannot upgrade the latch of the parent or of the child returns
\* false and has modified no node; the thread holds the latches it held before, in the
\* same modes; and the traversal ends at a node whose key range contains the key.
C30_FailedAdoptionChangesNothing ==
    [][/\ (th[getter_].pc = "try_adopt" /\ th'[getter_].pc = "release_branch") =>
              nodes' = nodes /\ held' = held /\ nnodes' = nnodes
       /\ th'[getter_].pc = "leaf" =>
              key_range_contains(nodes'[th'[getter_].child], th'[getter_].key)]_vars

\* a try_adopt has returned false for a child that has a foster child: an upgrade failed
C30_UpgradeFailed ==
    /\ th[getter_].pc = "release_branch"
    /\ get_foster_child(nodes[th[getter_].child]).ok

\* the slots, payloads or foster fields of node n change in this step
modified(n) ==
    [nodes'[n] EXCEPT !.counter = 0] # [nodes[n] EXCEPT !.counter = 0]

\* C28: in every interleaving, whenever a thread modifies a node (insert, remove,
\* split), it holds the latch of the node in write mode and no other thread holds a
\* latch on that node.
C28_ModifiedUnderWriteLatch ==
    [][\A t \in Threads :
          (th[t].pc \in {"insert", "split", "remove"} /\ th'[t] # th[t]
           /\ modified(th[t].node)) =>
              /\ held[t][th[t].node] = "w"
              /\ \A t2 \in Threads \ {t} : held[t2][th[t].node] = ""]_vars
-----------------------------------------------------------------------------
(* The claims on the upgrade of a latch, on adoption during traversals, on
   levels, on foster fields and on the records of the tree *)

\* the threads other than t that hold the latch in some mode
other_holders(t) == {u \in Threads \ {t} : held[u][latch_] # ""}

\* the step of thread t in which its attempt_upgrade ends with the given outcome
upgrade_ends(t, outcome) ==
    /\ th[t].op = "attempt_upgrade"
    /\ th[t].pc \in {"tw_check", "tw_lock", "tw_cas"}
    /\ th'[t].pc = outcome

\* C31: an attempt_upgrade by a thread that holds the read latch never waits; it
\* succeeds only if no other thread holds the latch in either mode at that moment,
\* and the caller then holds the write latch with no reader counted; when it fails
\* the counter is as before and the caller still holds its read latch
C31_UpgradeOnlyBySoleHolder ==
    [][\A t \in Threads :
          /\ upgrade_ends(t, "granted") =>
                /\ other_holders(t) = {}
                /\ held'[t][latch_] = "w"
                /\ nodes'[latch_].counter = WRITER_MASK
          /\ upgrade_ends(t, "failed") =>
                /\ nodes'[latch_].counter = nodes[latch_].counter
                /\ held'[t][latch_] = "r"]_vars

\* an attempt_upgrade has returned true
C31_Upgraded ==
    \E t \in Threads : th[t].op = "attempt_upgrade" /\ th[t].res = "granted" /\ th[t].pc = "idle"

\* C32: a get traverses without adopting: every step of the get leaves the slots,
\* payloads and foster fields of every node as they were, allocates no page, and
\* leaves the get with shared latches only
C32_GetModifiesNothing ==
    [][th'[getter_] # th[getter_] =>
          /\ \A n \in Nodes : ~modified(n)
          /\ nnodes' = nnodes
          /\ \A n \in Nodes : held'[getter_][n] # "w"]_vars

\* the descent of a put or remove from the root it has latched, for a key; no
\* compare-exchange fails spuriously
root_descent(key) ==
    descend_to_child([nodes EXCEPT ![root_] = seq_latch_pointer(@, TRUE).page], nnodes,
                     root_, key, TRUE, TRUE)

\* C33: with one thread, the child that the traversal of a put or remove descends into
\* from a branch node has no foster child: every foster child found on the chosen
\* child is adopted and the lookup repeated until the chosen child has none
C33_DescentAdoptsAll ==
    nodes[root_].level > 0 =>
        \A key \in Keys :
            root_descent(key).res = "ok" =>
                ~get_foster_child(root_descent(key).nodes[root_descent(key).node]).ok

\* C34: after any sequence of operations every foster child has the level of its
\* foster parent, and every child that a record of a branch node of level L points to
\* has level L - 1, the node that a split of a full branch node creates during an
\* adoption included
C34_LevelsConsistent ==
    \A n \in 1..nnodes :
        /\ get_foster_child(nodes[n]).ok =>
               \A f \in {foster_field_value(nodes[n], FosterPtr)} :
                   f \in 1..nnodes => nodes[f].level = nodes[n].level
        /\ nodes[n].level > 0 =>
               \A i \in 1..slot_count(nodes[n]) :
                   \A c \in {value_ptr(read_slot(nodes[n], i - 1).value)} :
                       c \in 1..nnodes => nodes[c].level = nodes[n].level - 1

\* the first payload block behind the record of slot s
record_end(p, s) ==
    get_slot(p, s).ptr + get_payload_count(encoded_length(get_payload_for_slot(p, s)))

\* C35: after any sequence of inserts and removes of records and of sets, resizes and
\* unsets of the foster fields of a page, every field is valid exactly if its last
\* writer set it, reads back the value last written to it, and lies inside the page
\* above the payload of every record
C35_FosterFieldsKept ==
    \A f \in Fields \ {Prefix} :
        /\ is_valid_foster_field(nodes[node_], f) = last.written[f].valid
        /\ last.written[f].valid =>
              /\ foster_field_value(nodes[node_], f) = last.written[f].value
              /\ nodes[node_].foster_payloads[f] < get_payload_end(nodes[node_])
              /\ \A s \in 0..(slot_count(nodes[node_]) - 1) :
                     record_end(nodes[node_], s) <= nodes[node_].foster_payloads[f]

\* the values a record is inserted with into a node: node pointers into a branch
\* node, the values of the puts into a leaf
InsertValues(p, key) ==
    IF p.level > 0 THEN {ptr_value(n) : n \in Nodes}
    ELSE ValuesOf(key) \cup BranchValuesOf(key)

\* C36: add_foster_child(n, c) with an empty node c succeeds for every node n of the
\* tree on which an insert returns full, whatever free space n has left, also for a
\* node that lost a foster child to an adoption and was filled again
C36_FullNodeTakesFosterChild ==
    nnodes < MaxNodes =>
        \A n \in 1..nnodes : \A key \in Keys : \A value \in InsertValues(nodes[n], key) :
            insert(nodes[n], key, value).res = "full" =>
                add_foster_child(nodes, n, nnodes + 1).ok

\* the node holds a record or has a foster child of its own
not_empty(p) == slot_count(p) > 0 \/ get_foster_child(p).ok

\* C37: add_foster_child(n, c) with a node c that holds a record or has a foster child
\* of its own is rejected with an error and leaves n and c as they were
C37_NonEmptyChildRejected ==
    \A n \in 1..nnodes : \A c \in (1..nnodes) \ {n} :
        not_empty(nodes[c]) =>
            /\ ~add_foster_child(nodes, n, c).ok
            /\ add_foster_child(nodes, n, c).nodes = nodes

\* the slots of the page whose key is not above key
slots_up_to(p, key) == {s \in 0..(slot_count(p) - 1) : KeyLeq(read_slot(p, s).key, key)}

\* the child stored with the greatest separator that is not above key
child_for(p, key) ==
    value_ptr(read_slot(p, CHOOSE s \in slots_up_to(p, key) :
                               \A s2 \in slots_up_to(p, key) : s2 <= s).value)

\* C38: in a branch node whose separators are sorted and begin with the minimum key,
\* find yields for every key the child stored with the greatest separator not above
\* the key, also when separators share the PMNK of the key, and whether the key is a
\* separator or not
C38_FindYieldsCoveringChild ==
    (/\ is_sorted(nodes[node_])
     /\ slot_count(nodes[node_]) > 0
     /\ read_slot(nodes[node_], 0).key = GetMinimumKeyValue) =>
        \A key \in LookupKeys :
            value_ptr(find(nodes[node_], key).value) = child_for(nodes[node_], key)

\* the slots, the free space, the payloads in use and the foster fields of two pages agree
same_node(p, q) ==
    /\ slot_count(p) = slot_count(q)
    /\ p.payload_begin = q.payload_begin
    /\ p.slots = q.slots
    /\ \A s \in 0..(slot_count(p) - 1) : read_slot(p, s) = read_slot(q, s)
    /\ \A i \in DOMAIN p.payloads : i >= p.payload_begin => p.payloads[i] = q.payloads[i]
    /\ p.foster_payloads = q.foster_payloads
    /\ p.foster_payload_valid = q.foster_payload_valid

\* C39: an insert that returns full, because the payload cannot be allocated or because
\* the slot cannot be inserted after the payload was allocated, leaves the node as it
\* was: same slot count, same payload_begin, same records in the same order
C39_FullInsertChangesNothing ==
    [][(last'.op = "insert" /\ last'.res = "full" /\ last'.calls = last.calls + 1) =>
          same_node(nodes[node_], nodes'[node_])]_vars

\* an insert returned full after its payload was allocated: the slot did not fit
C39_SlotDidNotFit ==
    /\ last.op = "insert"
    /\ last.res = "full"
    /\ allocate_payload(nodes[node_], get_payload_length(last.key, last.out)).ok

\* the nodes reached from the root over the foster pointers and over the records of
\* the nodes whose level says they hold node pointers
RECURSIVE reached_from(_, _, _)
reached_from(ns, frontier, seen) ==
    IF frontier = {} THEN seen
    ELSE reached_from(ns,
             ((UNION { (IF ns[n].level > 0 THEN children(ns[n]) ELSE {}) \cup
                       (IF get_foster_child(ns[n]).ok
                        THEN {foster_field_value(ns[n], FosterPtr)} ELSE {})
                       : n \in frontier }) \cap DOMAIN ns) \ (seen \cup frontier),
             seen \cup frontier)

\* the leaves reached from the root: the reached nodes of level 0, where a traversal ends
reachable_leaves(ns) == { n \in reached_from(ns, {root_}, {}) : ns[n].level = 0 }

\* the records of the reachable leaves, by place and by content
leaf_slots(ns) ==
    { <<n, s>> \in reachable_leaves(ns) \X (0..(BranchPayloadCount * 2)) :
        s < slot_count(ns[n]) }
leaf_pairs(ns) ==
    { <<read_slot(ns[x[1]], x[2]).key, read_slot(ns[x[1]], x[2]).value>> : x \in leaf_slots(ns) }

\* the pairs a put has added to the map, and those a remove has taken from it
pairs_added ==
    { <<k, stored'[k]>> : k \in {k \in Keys : stored[k] = NoValue /\ stored'[k] # NoValue} }
pairs_removed ==
    { <<k, stored[k]>> : k \in {k \in Keys : stored[k] # NoValue /\ stored'[k] = NoValue} }

\* C40: the splits, rebalances, adoptions and the growth of a step leave the pairs of the
\* leaves reached from the root as they were, but for the pair the step puts or removes:
\* no record is lost and none appears twice
C40_StructureKeepsPairs ==
    [][/\ leaf_pairs(nodes') = (leaf_pairs(nodes) \ pairs_removed) \cup pairs_added
       /\ Cardinality(leaf_slots(nodes)) = Cardinality(leaf_pairs(nodes)) =>
              Cardinality(leaf_slots(nodes')) = Cardinality(leaf_pairs(nodes'))]_vars
====
